---- MODULE Spec2Model ----
(***************************************************************************)
(* The editor bridge of nvim-markdown-notes-memgraph (bridge.py) and the   *)
(* property graph it maintains in Memgraph.                                *)
(*                                                                         *)
(* The graph database is the system of record: its content is the variable *)
(* graph.  Each Cypher statement the bridge issues is an operator from     *)
(* graph to graph; a handler is the sequence of its statements, run in     *)
(* order under autocommit, any of which may raise.                         *)
(*                                                                         *)
(* Strings that the code takes apart (paths, names) are sequences of       *)
(* one-character strings; strings it only stores (titles, contents,        *)
(* digests, error texts) are TLA+ strings.                                 *)
(***************************************************************************)
EXTENDS Integers, Sequences, FiniteSets, Bags, TLC

VARIABLES
    connection,   \* MemgraphBridge.connection: TRUE when a handle is held
    graph,        \* the content of the Memgraph database
    pc,           \* where MemgraphBridge.run stands
    request,      \* the request of the line read last
    response,     \* the response printed for it
    progress,     \* reindex's locals: indexed and errors
    before,       \* history: the graph as it was when the line was read
                  \* (dropped once reindex starts its loop)
    line,         \* what the line read last was: "none" before a read
    sent,         \* history: responses printed since the last line was read
    issued,       \* history: statements sent to the database since then
    HAS_MGCLIENT  \* whether `import mgclient` succeeded

vars == <<connection, graph, pc, request, response, progress, before,
          line, sent, issued, HAS_MGCLIENT>>

-----------------------------------------------------------------------------
(* Bounds of the model *)

\* Largest line number an entity record carries.
MaxLine == 2
\* Largest number of entity records (wikilinks + mentions + hashtags) in one
\* request.
MaxRecs == 2
\* Largest number of notes in one reindex request.
MaxNotes == 2

-----------------------------------------------------------------------------
(* The strings of the model *)

Empty == << >>

PA == <<"/", "n", "/", "a", ".", "m", "d">>
PBob == <<"/", "p", "e", "o", "p", "l", "e", "/", "b", "o", "b", ".", "m", "d">>
Paths == {PA, PBob}

Bob == <<"b", "o", "b">>
MentionNames == {Bob}
TagX == <<"x">>
TagNames == {TagX}

\* The (title, content) pairs a request may carry.
Docs == {[title |-> "T1", content |-> "c1"], [title |-> "T2", content |-> "c2"]}
\* Values datetime.now().isoformat() may return.
Times == {"t1", "t2"}

LineNumbers == 1..MaxLine

-----------------------------------------------------------------------------
(* Pure helpers of update_note and run *)

\* The substring test `needle in s`.
Contains(s, needle) ==
    \E i \in 0..(Len(s) - Len(needle)) :
        \A j \in 1..Len(needle) : s[i + j] = needle[j]

\* s.startswith(prefix)
StartsWith(s, prefix) ==
    Len(prefix) <= Len(s) /\ SubSeq(s, 1, Len(prefix)) = prefix

PeopleSegment == <<"/", "p", "e", "o", "p", "l", "e", "/">>

\* os.path.basename: what follows the last "/".
Basename(p) ==
    LET slashes == {i \in 1..Len(p) : p[i] = "/"}
        last == IF slashes = {} THEN 0
                ELSE CHOOSE i \in slashes : \A j \in slashes : j <= i
    IN  SubSeq(p, last + 1, Len(p))

\* os.path.splitext(f)[0] for a name without "/": cut at the last "." unless
\* only dots precede it.
Stem(f) ==
    LET dots == {i \in 1..Len(f) : f[i] = "."}
        last == IF dots = {} THEN 0
                ELSE CHOOSE i \in dots : \A j \in dots : j <= i
    IN  IF last > 0 /\ \E i \in 1..(last - 1) : f[i] # "."
        THEN SubSeq(f, 1, last - 1)
        ELSE f

\* hashlib.md5(content).hexdigest() on the contents of the model.
ComputeContentHash(content) ==
    CASE content = "c1" -> "md5-c1"
      [] content = "c2" -> "md5-c2"

-----------------------------------------------------------------------------
(* The graph: bags of nodes and of relationships.  A node is its property  *)
(* map; a relationship names its end nodes by their key.                   *)

EmptyGraph ==
    [notes |-> EmptyBag, persons |-> EmptyBag, tags |-> EmptyBag,
     links_to |-> EmptyBag, mentions |-> EmptyBag, has_tag |-> EmptyBag,
     has_note |-> EmptyBag]

NotesAt(g, path) == {n \in BagToSet(g.notes) : n.path = path}
PersonsNamed(g, name) == {p \in BagToSet(g.persons) : p.name = name}
TagsNamed(g, name) == {t \in BagToSet(g.tags) : t.name = name}

\* The elements of a sequence.
Range(f) == {f[i] : i \in DOMAIN f}

\* The bag b with every copy of the elements of the set drop removed.
BagWithout(b, drop) ==
    [e \in BagToSet(b) \ drop |-> b[e]]

\* The bag b with every element e replaced by f[e].
BagMap(b, f) ==
    LET S == BagToSet(b)
        RECURSIVE Sum(_)
        Sum(T) == IF T = {} THEN 0
                  ELSE LET e == CHOOSE e \in T : TRUE
                       IN  b[e] + Sum(T \ {e})
    IN  [y \in {f[e] : e \in S} |-> Sum({e \in S : f[e] = y})]

\* The elements of the bag b that start at, end at, or touch the node keyed k.
From(b, k) == {e \in BagToSet(b) : e.src = k}
To(b, k) == {e \in BagToSet(b) : e.dst = k}

AddOne(b, e) == b (+) SetToBag({e})

-----------------------------------------------------------------------------
(* The Cypher statements of the bridge, each as a function of the graph *)

\* CREATE where the code has MERGE: a new node whatever the graph holds.
CreateNote(g, path, title, filename, content_hash, last_modified) ==
    [g EXCEPT !.notes =
        AddOne(@, [path |-> path, title |-> title, filename |-> filename,
                   content_hash |-> content_hash,
                   last_modified |-> last_modified])]

\* MERGE (n:Note {path: $path}) SET n.title = .., n.filename = ..,
\*     n.content_hash = .., n.last_modified = ..
MergeNote(g, path, title, filename, content_hash, last_modified) ==
    LET props == [path |-> path, title |-> title, filename |-> filename,
                  content_hash |-> content_hash,
                  last_modified |-> last_modified]
    IN  IF NotesAt(g, path) = {}
        THEN [g EXCEPT !.notes = AddOne(@, props)]
        ELSE [g EXCEPT !.notes =
                BagMap(@, [n \in BagToSet(@) |->
                              IF n.path = path THEN props ELSE n])]

\* A delete that forgets two of the three relationship types.
DeleteOutgoingLinksOnly(g, path) ==
    [g EXCEPT !.links_to = BagWithout(@, From(@, path))]

\* A delete without the direction of the pattern: the relationships that
\* arrive at the note go as well.
DeleteOutgoingAndIncoming(g, path) ==
    [g EXCEPT !.links_to = BagWithout(@, From(@, path) \cup To(@, path)),
              !.mentions = BagWithout(@, From(@, path)),
              !.has_tag = BagWithout(@, From(@, path)),
              !.has_note = BagWithout(@, To(@, path))]

\* MATCH (n:Note {path: $path})-[r:LINKS_TO|MENTIONS|HAS_TAG]->() DELETE r
DeleteOutgoing(g, path) ==
    [g EXCEPT !.links_to = BagWithout(@, From(@, path)),
              !.mentions = BagWithout(@, From(@, path)),
              !.has_tag = BagWithout(@, From(@, path))]

\* CREATE where the code has MERGE.
CreateEdge(b, e) == AddOne(b, e)

\* MERGE of a relationship between two matched nodes: created only when no
\* relationship of that type with these properties joins them.
MergeEdge(b, e) == IF BagIn(e, b) THEN b ELSE AddOne(b, e)

\* MATCH of the target where the code has MERGE: no target, no relationship.
MatchLinksTo(g, source_path, target_path, line_number) ==
    IF NotesAt(g, source_path) = {} \/ NotesAt(g, target_path) = {} THEN g
    ELSE [g EXCEPT !.links_to = MergeEdge(@, [src |-> source_path,
                                              dst |-> target_path,
                                              line_number |-> line_number])]

\* A wikilink statement that resets its target to a node with a path only.
ResetLinksTo(g, source_path, target_path, line_number) ==
    IF NotesAt(g, source_path) = {} THEN g
    ELSE [g EXCEPT !.notes = AddOne(BagWithout(@, NotesAt(g, target_path)),
                                    [path |-> target_path]),
                   !.links_to = MergeEdge(@, [src |-> source_path,
                                              dst |-> target_path,
                                              line_number |-> line_number])]

\* MATCH (source:Note {path: $source_path})
\* MERGE (target:Note {path: $target_path})
\* MERGE (source)-[r:LINKS_TO {line_number: $line_number}]->(target)
MergeLinksTo(g, source_path, target_path, line_number) ==
    IF NotesAt(g, source_path) = {} THEN g
    ELSE LET notes1 == IF NotesAt(g, target_path) = {}
                       THEN AddOne(g.notes, [path |-> target_path])
                       ELSE g.notes
         IN  [g EXCEPT !.notes = notes1,
                       !.links_to = MergeEdge(@, [src |-> source_path,
                                                  dst |-> target_path,
                                                  line_number |-> line_number])]

\* MATCH (source:Note {path: $source_path})
\* MERGE (person:Person {name: $person_name})
\* MERGE (source)-[r:MENTIONS {line_number: $line_number}]->(person)
MergeMentions(g, source_path, person_name, line_number) ==
    IF NotesAt(g, source_path) = {} THEN g
    ELSE LET persons1 == IF PersonsNamed(g, person_name) = {}
                         THEN AddOne(g.persons, [name |-> person_name])
                         ELSE g.persons
         IN  [g EXCEPT !.persons = persons1,
                       !.mentions = MergeEdge(@, [src |-> source_path,
                                                  dst |-> person_name,
                                                  line_number |-> line_number])]

\* A hashtag statement that matches the tag where the code merges it, and
\* merges the relationship all the same.
MergeHasTagToMissingTag(g, source_path, tag_name, line_number) ==
    IF NotesAt(g, source_path) = {} THEN g
    ELSE [g EXCEPT !.has_tag = MergeEdge(@, [src |-> source_path,
                                             dst |-> tag_name,
                                             line_number |-> line_number])]

\* MATCH (source:Note {path: $source_path})
\* MERGE (tag:Tag {name: $tag_name})
\* MERGE (source)-[r:HAS_TAG {line_number: $line_number}]->(tag)
MergeHasTag(g, source_path, tag_name, line_number) ==
    IF NotesAt(g, source_path) = {} THEN g
    ELSE LET tags1 == IF TagsNamed(g, tag_name) = {}
                      THEN AddOne(g.tags, [name |-> tag_name])
                      ELSE g.tags
         IN  [g EXCEPT !.tags = tags1,
                       !.has_tag = MergeEdge(@, [src |-> source_path,
                                                 dst |-> tag_name,
                                                 line_number |-> line_number])]

\* MERGE (person:Person {name: $person_name})
\* SET person.display_name = $person_name
\* WITH person MATCH (note:Note {path: $path})
\* MERGE (person)-[:HAS_NOTE]->(note)
MergeHasNote(g, person_name, path) ==
    LET props == [name |-> person_name, display_name |-> person_name]
        persons1 == IF PersonsNamed(g, person_name) = {}
                    THEN AddOne(g.persons, props)
                    ELSE BagMap(g.persons,
                                [p \in BagToSet(g.persons) |->
                                    IF p.name = person_name THEN props ELSE p])
    IN  [g EXCEPT !.persons = persons1,
                  !.has_note = IF NotesAt(g, path) = {} THEN @
                               ELSE MergeEdge(@, [src |-> person_name,
                                                  dst |-> path])]

\* A delete that leaves the relationships arriving at the note in place.
DeleteKeepingIncoming(g, path) ==
    [g EXCEPT !.notes = BagWithout(@, NotesAt(g, path)),
              !.links_to = BagWithout(@, From(@, path)),
              !.mentions = BagWithout(@, From(@, path)),
              !.has_tag = BagWithout(@, From(@, path)),
              !.has_note = BagWithout(@, To(@, path))]

\* A delete of the node that leaves every relationship in place.
DeleteNodeOnly(g, path) ==
    [g EXCEPT !.notes = BagWithout(@, NotesAt(g, path))]

\* MATCH (n:Note {path: $path}) DETACH DELETE n
DetachDeleteNote(g, path) ==
    [g EXCEPT !.notes = BagWithout(@, NotesAt(g, path)),
              !.links_to = BagWithout(@, From(@, path) \cup To(@, path)),
              !.mentions = BagWithout(@, From(@, path)),
              !.has_tag = BagWithout(@, From(@, path)),
              !.has_note = BagWithout(@, To(@, path))]

\* A sweep that deletes no tag.
KeepOrphanTags(g) == g

\* A sweep that also deletes the Notes no relationship touches.
DeleteOrphanTagsAndNotes(g) ==
    [g EXCEPT !.tags =
        BagWithout(@, {t \in BagToSet(@) : To(g.has_tag, t.name) = {}}),
              !.notes =
        BagWithout(@, {n \in BagToSet(@) :
                          /\ From(g.links_to, n.path) = {}
                          /\ To(g.links_to, n.path) = {}
                          /\ From(g.mentions, n.path) = {}
                          /\ From(g.has_tag, n.path) = {}
                          /\ To(g.has_note, n.path) = {}})]

\* MATCH (t:Tag) WHERE NOT (t)<-[:HAS_TAG]-() DELETE t
DeleteOrphanTags(g) ==
    [g EXCEPT !.tags =
        BagWithout(@, {t \in BagToSet(@) : To(g.has_tag, t.name) = {}})]

\* A sweep that does not look at HAS_NOTE.
DeleteUnmentionedPersons(g) ==
    [g EXCEPT !.persons =
        BagWithout(@, {p \in BagToSet(@) : To(g.mentions, p.name) = {}})]

\* MATCH (p:Person)
\* WHERE NOT (p)<-[:MENTIONS]-() AND NOT (p)-[:HAS_NOTE]->() DELETE p
DeleteOrphanPersons(g) ==
    [g EXCEPT !.persons =
        BagWithout(@, {p \in BagToSet(@) : /\ To(g.mentions, p.name) = {}
                                           /\ From(g.has_note, p.name) = {}})]

\* A clear that matches the Note nodes only.
ClearNotesOnly(g) ==
    [EmptyGraph EXCEPT !.persons = g.persons, !.tags = g.tags]

\* MATCH (n) DETACH DELETE n
ClearGraph(g) == EmptyGraph

\* cursor.execute of one statement q on the graph g.
Execute(g, q) ==
    CASE q.stmt = "merge_note" ->
            MergeNote(g, q.path, q.title, q.filename, q.content_hash,
                      q.last_modified)
      [] q.stmt = "delete_outgoing" -> DeleteOutgoing(g, q.path)
      [] q.stmt = "links_to" ->
            MergeLinksTo(g, q.source_path, q.target_path, q.line_number)
      [] q.stmt = "mentions" ->
            MergeMentions(g, q.source_path, q.person_name, q.line_number)
      [] q.stmt = "has_tag" ->
            MergeHasTag(g, q.source_path, q.tag_name, q.line_number)
      [] q.stmt = "has_note" -> MergeHasNote(g, q.person_name, q.path)
      [] q.stmt = "detach_delete" -> DetachDeleteNote(g, q.path)
      [] q.stmt = "orphan_tags" -> DeleteOrphanTags(g)
      [] q.stmt = "orphan_persons" -> DeleteOrphanPersons(g)
      [] q.stmt = "clear" -> ClearGraph(g)

\* The graph after the first k statements of qs have run.
RECURSIVE Run(_, _, _)
Run(g, qs, k) ==
    IF k = 0 THEN g ELSE Execute(Run(g, qs, k - 1), qs[k])

-----------------------------------------------------------------------------
(* Requests *)

\* All sequences over S of length at most n.
SeqsUpTo(S, n) == UNION {[1..k -> S] : k \in 0..n}

\* The entity lists of one note: wikilinks over the targets T, mentions over
\* the names M, hashtags over the names H, on the lines L.
EntityLists(T, M, H, L) ==
    {e \in [wikilinks : SeqsUpTo([target_path : T, line_number : L], MaxRecs),
            mentions : SeqsUpTo([name : M, line_number : L], MaxRecs),
            hashtags : SeqsUpTo([name : H, line_number : L], MaxRecs)] :
        Len(e.wikilinks) + Len(e.mentions) + Len(e.hashtags) <= MaxRecs}

\* The params of an update_note request, and the entries of a reindex request.
NoteParams(P, D, E) ==
    {[path |-> p, title |-> d.title, content |-> d.content,
      wikilinks |-> e.wikilinks, mentions |-> e.mentions,
      hashtags |-> e.hashtags] : p \in P, d \in D, e \in E}

\* The notes and clock values of the sessions checked: every kind of entity,
\* one line, one document.
Universe ==
    [notes |-> NoteParams(Paths, {[title |-> "T1", content |-> "c1"]},
                          EntityLists(Paths \cup {Empty}, MentionNames,
                                      TagNames, {1})),
     times |-> {"t1"},
     more |-> {}]

\* Wikilinks to PBob on several lines, several documents.
UniverseLinks ==
    [notes |-> NoteParams(Paths, Docs, EntityLists({PBob}, {}, {}, LineNumbers)),
     times |-> {"t1"},
     more |-> {}]

\* The number of entity records of a note, and of a list of notes.
Records(note) == Len(note.wikilinks) + Len(note.mentions) + Len(note.hashtags)

RECURSIVE RecordsOfAll(_)
RecordsOfAll(notes) ==
    IF notes = << >> THEN 0 ELSE Records(Head(notes)) + RecordsOfAll(Tail(notes))

NoRequest == [action |-> "none"]

\* A params value that is valid JSON and not an object.
NotAnObject == [json |-> "array"]

\* The actions whose dispatch in run reads params.get(...).
ParamActions == {"connect", "update_note", "delete_note", "query", "reindex"}

\* The actions run dispatches on.
KnownActions ==
    {"connect", "health_check", "update_note", "delete_note", "query",
     "reindex", "stats", "quit"}

\* request.get("action") for an object without the key: None.
None == "<None>"

\* The text of a missing action had request.get been given "" as default.
StrOrEmpty(action) == IF action = None THEN "" ELSE action

\* str(action) inside the f-string of the unknown-action error.
Str(action) == IF action = None THEN "None" ELSE action

\* An entry of the notes of a reindex request that is not an object.
MalformedEntries == {[json |-> "string"]}

\* Every kind of line: few notes, wikilinks to PBob only.
UniverseLoop ==
    [notes |-> NoteParams(Paths, {[title |-> "T1", content |-> "c1"]},
                          EntityLists({PBob}, {}, {}, {1})),
     times |-> {"t1"},
     more |-> {[action |-> "query",
                params |-> [cypher |-> "MATCH (n:Note) RETURN count(n)"]],
               [action |-> "stats"], [action |-> "quit"],
               [action |-> "frobnicate"], [action |-> None]}
              \cup {[action |-> a, params |-> NotAnObject] :
                       a \in ParamActions \cup {"stats", "frobnicate"}}]

\* Notes whose statements can fail one by one: every kind of entity, one
\* line, wikilinks to PBob or without a target_path.
UniverseUpdate ==
    [notes |-> NoteParams(Paths, {[title |-> "T1", content |-> "c1"]},
                          EntityLists({PBob, Empty}, MentionNames,
                                      TagNames, {1})),
     times |-> {"t1"},
     more |-> {}]

\* Every kind of relationship: the note at PA links to the person note at
\* PBob on any line, the note at PBob mentions and tags on line 1; a record
\* may repeat another on the same line or on a different one.
UniverseEdges ==
    [notes |-> NoteParams({PA}, {[title |-> "T1", content |-> "c1"]},
                          EntityLists({PBob}, {}, {}, LineNumbers))
               \cup NoteParams({PBob}, {[title |-> "T1", content |-> "c1"]},
                               EntityLists({}, MentionNames, TagNames, {1})),
     times |-> {"t1"},
     more |-> {}]

\* params.get raises AttributeError for this request.
BadParams(r) ==
    /\ r.action \in ParamActions
    /\ "params" \in DOMAIN r
    /\ r.params = NotAnObject
NoResponse == [success |-> FALSE, error |-> "none"]
NoProgress == [indexed |-> 0, errors |-> << >>]

-----------------------------------------------------------------------------
(* The statements a handler issues, in order *)

\* for x in records: if x.get(key): the records that get a statement.
Kept(records, key) == SelectSeq(records, LAMBDA r : r[key] # Empty)

\* The statements of _update_note_internal: steps 1 and 3-6 of a sync.
UpdateNoteInternalStatements(note, last_modified) ==
    LET path == note.path
        filename == Basename(path)
        links == Kept(note.wikilinks, "target_path")
        mentions == Kept(note.mentions, "name")
        hashtags == Kept(note.hashtags, "name")
    IN  << [stmt |-> "merge_note", path |-> path, title |-> note.title,
            filename |-> filename,
            content_hash |-> ComputeContentHash(note.content),
            last_modified |-> last_modified] >>
        \o [i \in 1..Len(links) |->
               [stmt |-> "links_to", source_path |-> path,
                target_path |-> links[i].target_path,
                line_number |-> links[i].line_number]]
        \o [i \in 1..Len(mentions) |->
               [stmt |-> "mentions", source_path |-> path,
                person_name |-> mentions[i].name,
                line_number |-> mentions[i].line_number]]
        \o [i \in 1..Len(hashtags) |->
               [stmt |-> "has_tag", source_path |-> path,
                tag_name |-> hashtags[i].name,
                line_number |-> hashtags[i].line_number]]
        \o (IF Contains(path, PeopleSegment)
            THEN << [stmt |-> "has_note", person_name |-> Stem(filename),
                     path |-> path] >>
            ELSE << >>)

\* An update_note that ends with the two orphan sweeps of delete_note.
UpdateNoteStatementsThenSweep(note, last_modified) ==
    LET internal == UpdateNoteInternalStatements(note, last_modified)
    IN  << Head(internal), [stmt |-> "delete_outgoing", path |-> note.path] >>
        \o Tail(internal)
        \o << [stmt |-> "orphan_tags"], [stmt |-> "orphan_persons"] >>

\* The statements of update_note: those of _update_note_internal with the
\* delete of the note's outgoing relationships after the first.
UpdateNoteStatements(note, last_modified) ==
    LET internal == UpdateNoteInternalStatements(note, last_modified)
    IN  << Head(internal), [stmt |-> "delete_outgoing", path |-> note.path] >>
        \o Tail(internal)

DeleteNoteStatements(path) ==
    << [stmt |-> "detach_delete", path |-> path],
       [stmt |-> "orphan_tags"],
       [stmt |-> "orphan_persons"] >>

-----------------------------------------------------------------------------
(* Responses *)

Success(data) == [success |-> TRUE, data |-> data]
Failure(error) == [success |-> FALSE, error |-> error]
NotConnected == Failure("Not connected")

-----------------------------------------------------------------------------
(* MemgraphBridge.run and the handlers it dispatches to.  pc is "idle"     *)
(* before a line is read, "handling" once the line is parsed, "cleared"    *)
(* once reindex has cleared the graph, "reindexing" inside its loop over   *)
(* the notes, "responded" once send_response has printed, and "stopped"    *)
(* once the loop of run is left.                                           *)

Init ==
    /\ connection = FALSE
    /\ graph = EmptyGraph
    /\ pc = "idle"
    /\ request = NoRequest
    /\ response = NoResponse
    /\ progress = NoProgress
    /\ before = EmptyGraph
    /\ line = "none"
    /\ sent = 0
    /\ issued = FALSE
    /\ HAS_MGCLIENT \in BOOLEAN

\* line = sys.stdin.readline(); request = json.loads(line), for a line that
\* holds a JSON object.
ReadLine(U) ==
    /\ pc = "idle"
    /\ request' \in
          {[action |-> "connect"], [action |-> "health_check"],
           [action |-> "reindex", params |-> [notes |-> << >>]]}
          \cup {[action |-> "update_note", params |-> n] : n \in U.notes}
          \cup {[action |-> "delete_note", params |-> [path |-> p]] : p \in Paths}
          \cup U.more
    /\ pc' = "handling"
    /\ before' = graph
    /\ line' = "object"
    /\ sent' = 0
    /\ issued' = FALSE
    /\ UNCHANGED <<connection, graph, response, progress, HAS_MGCLIENT>>

\* The loop of run comes back to readline.
NextLine ==
    /\ pc = "responded"
    /\ pc' = "idle"
    /\ request' = NoRequest
    /\ response' = NoResponse
    /\ before' = EmptyGraph
    /\ line' = "none"
    /\ sent' = 0
    /\ issued' = FALSE
    /\ UNCHANGED <<connection, graph, progress, HAS_MGCLIENT>>

\* run has parsed an object and evaluated the arguments of the handler of
\* this action.
Dispatched(action) ==
    /\ pc = "handling"
    /\ line = "object"
    /\ request.action = action
    /\ ~BadParams(request)

\* connect: mgclient.connect either returns a handle or raises; the four
\* statements of _ensure_schema follow on the new handle.
Connect ==
    /\ Dispatched("connect")
    /\ IF ~HAS_MGCLIENT
       THEN /\ response' = Failure("mgclient not installed")
            /\ UNCHANGED <<connection, issued>>
       ELSE \E ok \in BOOLEAN :
              /\ connection' = ok
              /\ issued' = ok
              /\ response' = IF ok THEN Success([message |-> "Connected to Memgraph"])
                             ELSE Failure("Failed to connect")
    /\ sent' = sent + 1
    /\ pc' = "responded"
    /\ UNCHANGED <<graph, request, progress, before, line, HAS_MGCLIENT>>

\* A health_check whose except clause leaves the handle in place.
HealthCheckKeepsHandle ==
    /\ Dispatched("health_check")
    /\ IF ~connection
       THEN /\ response' = NotConnected
            /\ UNCHANGED issued
       ELSE \E ok \in BOOLEAN :
                /\ issued' \in (IF ok THEN {TRUE} ELSE BOOLEAN)
                /\ response' = IF ok THEN Success([status |-> "healthy"])
                               ELSE Failure("Health check failed")
    /\ sent' = sent + 1
    /\ pc' = "responded"
    /\ UNCHANGED <<connection, graph, request, progress, before, line,
                   HAS_MGCLIENT>>

\* health_check: RETURN 1 either answers or raises.
HealthCheck ==
    /\ Dispatched("health_check")
    /\ IF ~connection
       THEN /\ response' = NotConnected
            /\ UNCHANGED <<connection, issued>>
       ELSE \E ok \in BOOLEAN :
                /\ connection' = ok
                /\ issued' \in (IF ok THEN {TRUE} ELSE BOOLEAN)
                /\ response' = IF ok THEN Success([status |-> "healthy"])
                               ELSE Failure("Health check failed")
    /\ sent' = sent + 1
    /\ pc' = "responded"
    /\ UNCHANGED <<graph, request, progress, before, line, HAS_MGCLIENT>>

\* Whether a handler that raised after k of its statements had sent one to
\* the database: with k = 0 the raise may have come before the first.
IssuedAfter(k) == IF k = 0 THEN BOOLEAN ELSE {TRUE}

\* update_note inside one transaction: a statement that raises undoes the
\* ones before it.
UpdateNoteAtomic(U) ==
    /\ Dispatched("update_note")
    /\ IF ~connection
       THEN /\ response' = NotConnected
            /\ UNCHANGED <<graph, issued>>
       ELSE \E now \in U.times :
              LET note == request.params
                  stmts == UpdateNoteStatements(note, now)
              IN  \E k \in 0..Len(stmts) :
                    /\ graph' = IF k = Len(stmts) THEN Run(graph, stmts, k) ELSE graph
                    /\ issued' \in IssuedAfter(k)
                    /\ response' =
                         IF k = Len(stmts)
                         THEN Success([path |-> note.path,
                                       wikilinks_count |-> Len(note.wikilinks),
                                       mentions_count |-> Len(note.mentions),
                                       hashtags_count |-> Len(note.hashtags)])
                         ELSE Failure("Failed to update note")
    /\ sent' = sent + 1
    /\ pc' = "responded"
    /\ UNCHANGED <<connection, request, progress, before, line, HAS_MGCLIENT>>

\* update_note: k statements run; the next one raises unless all have run.
UpdateNote(U) ==
    /\ Dispatched("update_note")
    /\ IF ~connection
       THEN /\ response' = NotConnected
            /\ UNCHANGED <<graph, issued>>
       ELSE \E now \in U.times :
              LET note == request.params
                  stmts == UpdateNoteStatements(note, now)
              IN  \E k \in 0..Len(stmts) :
                    /\ graph' = Run(graph, stmts, k)
                    /\ issued' \in IssuedAfter(k)
                    /\ response' =
                         IF k = Len(stmts)
                         THEN Success([path |-> note.path,
                                       wikilinks_count |-> Len(note.wikilinks),
                                       mentions_count |-> Len(note.mentions),
                                       hashtags_count |-> Len(note.hashtags)])
                         ELSE Failure("Failed to update note")
    /\ sent' = sent + 1
    /\ pc' = "responded"
    /\ UNCHANGED <<connection, request, progress, before, line, HAS_MGCLIENT>>

\* delete_note without its check of the handle: the statements are sent
\* whether or not a connection is held.
DeleteNoteUnchecked ==
    /\ Dispatched("delete_note")
    /\ LET path == request.params.path
           stmts == DeleteNoteStatements(path)
       IN  \E k \in 0..Len(stmts) :
             /\ graph' = Run(graph, stmts, k)
             /\ issued' \in IssuedAfter(k)
             /\ response' = IF k = Len(stmts)
                            THEN Success([deleted |-> path])
                            ELSE Failure("Failed to delete note")
    /\ sent' = sent + 1
    /\ pc' = "responded"
    /\ UNCHANGED <<connection, request, progress, before, line, HAS_MGCLIENT>>

\* delete_note
DeleteNote ==
    /\ Dispatched("delete_note")
    /\ IF ~connection
       THEN /\ response' = NotConnected
            /\ UNCHANGED <<graph, issued>>
       ELSE LET path == request.params.path
                stmts == DeleteNoteStatements(path)
            IN  \E k \in 0..Len(stmts) :
                  /\ graph' = Run(graph, stmts, k)
                  /\ issued' \in IssuedAfter(k)
                  /\ response' = IF k = Len(stmts)
                                 THEN Success([deleted |-> path])
                                 ELSE Failure("Failed to delete note")
    /\ sent' = sent + 1
    /\ pc' = "responded"
    /\ UNCHANGED <<connection, request, progress, before, line, HAS_MGCLIENT>>

\* A clear that has deleted the notes and their relationships when it
\* raises.
ReindexClearHalfDone ==
    /\ Dispatched("reindex")
    /\ IF ~connection
       THEN /\ response' = NotConnected
            /\ sent' = sent + 1
            /\ pc' = "responded"
            /\ UNCHANGED <<graph, issued>>
       ELSE \E ok \in BOOLEAN :
              IF ok
              THEN /\ graph' = ClearGraph(graph)
                   /\ issued' = TRUE
                   /\ pc' = "cleared"
                   /\ UNCHANGED <<response, sent>>
              ELSE /\ response' = Failure("Reindex failed")
                   /\ issued' \in BOOLEAN
                   /\ sent' = sent + 1
                   /\ pc' = "responded"
                   /\ graph' = ClearNotesOnly(graph)
    /\ progress' = NoProgress
    /\ UNCHANGED <<connection, request, before, line, HAS_MGCLIENT>>

\* reindex up to the clear of the graph.
ReindexClear ==
    /\ Dispatched("reindex")
    /\ IF ~connection
       THEN /\ response' = NotConnected
            /\ sent' = sent + 1
            /\ pc' = "responded"
            /\ UNCHANGED <<graph, issued>>
       ELSE \E ok \in BOOLEAN :
              IF ok
              THEN /\ graph' = ClearGraph(graph)
                   /\ issued' = TRUE
                   /\ pc' = "cleared"
                   /\ UNCHANGED <<response, sent>>
              ELSE /\ response' = Failure("Reindex failed")
                   /\ issued' \in BOOLEAN
                   /\ sent' = sent + 1
                   /\ pc' = "responded"
                   /\ UNCHANGED graph
    /\ progress' = NoProgress
    /\ UNCHANGED <<connection, request, before, line, HAS_MGCLIENT>>

\* reindex's call of _ensure_schema, whose statements change no node or
\* relationship and whose failures are passed; the loop starts.
ReindexEnsureSchema ==
    /\ pc = "cleared"
    /\ pc' = "reindexing"
    /\ before' = EmptyGraph
    /\ UNCHANGED <<connection, graph, request, response, progress, line, sent,
                   issued, HAS_MGCLIENT>>

\* One turn of reindex's loop over a note that is a record.
\* request.params.notes holds the notes the loop has taken so far; this turn
\* takes the next one.
ReindexNote(U) ==
    /\ pc = "reindexing"
    /\ Len(request.params.notes) < MaxNotes
    /\ \E note \in U.notes, now \in U.times :
         LET stmts == UpdateNoteInternalStatements(note, now)
         IN  \E k \in 0..Len(stmts) :
               /\ RecordsOfAll(request.params.notes) + Records(note) <= MaxRecs
               /\ request' = [request EXCEPT !.params.notes = Append(@, note)]
               /\ graph' = Run(graph, stmts, k)
               /\ progress' =
                    IF k = Len(stmts)
                    THEN [progress EXCEPT !.indexed = @ + 1]
                    ELSE [progress EXCEPT !.errors = Append(@, note.path)]
    /\ UNCHANGED <<connection, pc, response, before, line, sent, issued,
                   HAS_MGCLIENT>>

\* The end of reindex's loop: the response is sent and the locals are gone.
ReindexDone ==
    /\ pc = "reindexing"
    /\ response' = Success([indexed |-> progress.indexed,
                            total |-> Len(request.params.notes),
                            errors |-> progress.errors])
    /\ sent' = sent + 1
    /\ pc' = "responded"
    /\ progress' = NoProgress
    /\ UNCHANGED <<connection, graph, request, before, line, issued, HAS_MGCLIENT>>

\* The keys of get_stats in the order of their statements.
CountQueries ==
    << "notes", "persons", "tags", "links", "mentions", "tag_usages" >>

\* MATCH ... RETURN count(..) for one key of the statistics.
CountOf(g, key) ==
    CASE key = "notes" -> BagCardinality(g.notes)
      [] key = "persons" -> BagCardinality(g.persons)
      [] key = "tags" -> BagCardinality(g.tags)
      [] key = "links" -> BagCardinality(g.links_to)
      [] key = "mentions" -> BagCardinality(g.mentions)
      [] key = "tag_usages" -> BagCardinality(g.has_tag)

\* readline returns "": end of input, the loop is left.
ReadEof ==
    /\ pc = "idle"
    /\ pc' = "stopped"
    /\ line' = "eof"
    /\ UNCHANGED <<connection, graph, request, response, progress, before,
                   sent, issued, HAS_MGCLIENT>>

\* A blank line without the check that skips it: json.loads raises on the
\* empty string and the line is answered like any other malformed line.
ReadBlankAnswered ==
    /\ pc = "idle"
    /\ line' = "blank"
    /\ before' = graph
    /\ response' = Failure("Invalid JSON")
    /\ sent' = 1
    /\ pc' = "responded"
    /\ UNCHANGED <<connection, graph, request, progress, issued, HAS_MGCLIENT>>

\* A line that is empty once stripped: continue.
ReadBlank ==
    /\ pc = "idle"
    /\ line' = "blank"
    /\ UNCHANGED <<connection, graph, pc, request, response, progress, before,
                   sent, issued, HAS_MGCLIENT>>

\* A malformed line without the except clause for JSONDecodeError: the
\* except clause at the end of the loop answers instead.
ReadInvalidJsonUncaught ==
    /\ pc = "idle"
    /\ line' = "invalid"
    /\ before' = graph
    /\ response' = Failure("Unexpected error")
    /\ sent' = 1
    /\ pc' = "responded"
    /\ UNCHANGED <<connection, graph, request, progress, issued, HAS_MGCLIENT>>

\* json.loads raises JSONDecodeError: one response, continue.
ReadInvalidJson ==
    /\ pc = "idle"
    /\ line' = "invalid"
    /\ before' = graph
    /\ response' = Failure("Invalid JSON")
    /\ sent' = 1
    /\ pc' = "responded"
    /\ UNCHANGED <<connection, graph, request, progress, issued, HAS_MGCLIENT>>

\* json.loads returns a value that is not an object.
ReadValue ==
    /\ pc = "idle"
    /\ line' = "value"
    /\ before' = graph
    /\ pc' = "handling"
    /\ sent' = 0
    /\ UNCHANGED <<connection, graph, request, response, progress, issued,
                   HAS_MGCLIENT>>

\* request.get or params.get raises and no except clause of run catches it:
\* the exception leaves the loop.
UnexpectedPropagates ==
    /\ pc = "handling"
    /\ line = "value" \/ BadParams(request)
    /\ pc' = "stopped"
    /\ UNCHANGED <<connection, graph, request, response, progress, before, line,
                   sent, issued, HAS_MGCLIENT>>

\* request.get or params.get raises: the except clause of run answers.
Unexpected ==
    /\ pc = "handling"
    /\ line = "value" \/ BadParams(request)
    /\ response' = Failure("Unexpected error")
    /\ sent' = sent + 1
    /\ pc' = "responded"
    /\ UNCHANGED <<connection, graph, request, progress, before, line, issued,
                   HAS_MGCLIENT>>

\* The else branch of run's dispatch.
UnknownAction ==
    /\ pc = "handling"
    /\ line = "object"
    /\ request.action \notin KnownActions
    /\ response' = Failure("Unknown action: " \o Str(request.action))
    /\ sent' = sent + 1
    /\ pc' = "responded"
    /\ UNCHANGED <<connection, graph, request, progress, before, line, issued,
                   HAS_MGCLIENT>>

\* quit: break.
Quit ==
    /\ Dispatched("quit")
    /\ pc' = "stopped"
    /\ UNCHANGED <<connection, graph, request, response, progress, before, line,
                   sent, issued, HAS_MGCLIENT>>

\* query, for the count of the notes: the statement answers or raises.
Query ==
    /\ Dispatched("query")
    /\ IF ~connection
       THEN /\ response' = NotConnected
            /\ UNCHANGED issued
       ELSE \E ok \in BOOLEAN :
              /\ issued' \in (IF ok THEN {TRUE} ELSE BOOLEAN)
              /\ response' =
                   IF ok
                   THEN Success([results |-> << << CountOf(graph, "notes") >> >>,
                                 count |-> 1])
                   ELSE Failure("Query failed")
    /\ sent' = sent + 1
    /\ pc' = "responded"
    /\ UNCHANGED <<connection, graph, request, progress, before, line,
                   HAS_MGCLIENT>>

\* get_stats: the six counts in order; one that raises fails the call.
GetStats ==
    /\ Dispatched("stats")
    /\ IF ~connection
       THEN /\ response' = NotConnected
            /\ UNCHANGED issued
       ELSE \E k \in 0..Len(CountQueries) :
              /\ issued' \in IssuedAfter(k)
              /\ response' =
                   IF k = Len(CountQueries)
                   THEN Success([key \in Range(CountQueries) |-> CountOf(graph, key)])
                   ELSE Failure("Failed to get stats")
    /\ sent' = sent + 1
    /\ pc' = "responded"
    /\ UNCHANGED <<connection, graph, request, progress, before, line,
                   HAS_MGCLIENT>>

\* One turn of reindex's loop over an entry that is not a record: note.get
\* raises, and raises again in the except clause that would record the
\* error, so the except clause of reindex answers.
ReindexMalformed ==
    /\ pc = "reindexing"
    /\ Len(request.params.notes) < MaxNotes
    /\ \E entry \in MalformedEntries :
         request' = [request EXCEPT !.params.notes = Append(@, entry)]
    /\ response' = Failure("Reindex failed")
    /\ sent' = sent + 1
    /\ pc' = "responded"
    /\ progress' = NoProgress
    /\ UNCHANGED <<connection, graph, before, line, issued, HAS_MGCLIENT>>

\* The steps that take no input.
Handle ==
    \/ NextLine
    \/ Connect
    \/ HealthCheck
    \/ DeleteNote
    \/ ReindexClear
    \/ ReindexEnsureSchema
    \/ ReindexDone

\* What run does with the other lines and the other actions.
HandleMore ==
    \/ ReadEof
    \/ ReadBlank
    \/ ReadInvalidJson
    \/ ReadValue
    \/ Unexpected
    \/ UnknownAction
    \/ Quit
    \/ Query
    \/ GetStats
    \/ ReindexMalformed

Next ==
    \/ ReadLine(Universe)
    \/ UpdateNote(Universe)
    \/ ReindexNote(Universe)
    \/ Handle

NextLinks ==
    \/ ReadLine(UniverseLinks)
    \/ UpdateNote(UniverseLinks)
    \/ ReindexNote(UniverseLinks)
    \/ Handle

NextLoop ==
    \/ ReadLine(UniverseLoop)
    \/ UpdateNote(UniverseLoop)
    \/ ReindexNote(UniverseLoop)
    \/ Handle
    \/ HandleMore

NextUpdate ==
    \/ ReadLine(UniverseUpdate)
    \/ UpdateNote(UniverseUpdate)
    \/ ReindexNote(UniverseUpdate)
    \/ Handle

NextEdges ==
    \/ ReadLine(UniverseEdges)
    \/ UpdateNote(UniverseEdges)
    \/ ReindexNote(UniverseEdges)
    \/ Handle

Spec == Init /\ [][Next]_vars
SpecEdges == Init /\ [][NextEdges]_vars
SpecUpdate == Init /\ [][NextUpdate]_vars
SpecLoop == Init /\ [][NextLoop]_vars
SpecLinks == Init /\ [][NextLinks]_vars

-----------------------------------------------------------------------------
(* Views of a state used by the properties *)

\* The run loop has just answered a request of this action.
Handled(action) == pc = "responded" /\ request.action = action
Succeeded(action) == Handled(action) /\ response.success

\* The relationships of the bag b that start at the node keyed src.
OutgoingOf(b, src) == [e \in From(b, src) |-> b[e]]
\* The relationships of the bag b that end at the node keyed dst.
IncomingOf(b, dst) == [e \in To(b, dst) |-> b[e]]

\* One relationship from path per record with a non-empty key.
Wanted(path, records, key) ==
    {[src |-> path, dst |-> r[key], line_number |-> r.line_number] :
        r \in {x \in Range(records) : x[key] # Empty}}

\* No element of the bag b occurs twice.
NoCopies(b) == \A e \in BagToSet(b) : b[e] = 1

\* The graph g after a complete update_note of note at time now.
Synced(g, note, now) ==
    LET stmts == UpdateNoteStatements(note, now)
    IN  Run(g, stmts, Len(stmts))

\* The graph g without the last_modified property of its notes.
WithoutLastModified(g) ==
    [g EXCEPT !.notes =
        BagMap(@, [n \in BagToSet(@) |->
                      [k \in DOMAIN n \ {"last_modified"} |-> n[k]]])]

-----------------------------------------------------------------------------
(* C1 *)

\* C1: after a successful update_note(path, ...) the outgoing LINKS_TO,
\* MENTIONS and HAS_TAG relationships of Note(path) are exactly one per
\* (target, line_number) pair of the records of this call with a non-empty
\* target_path / name; nothing of an earlier sync of the path is left.
C1_SyncReplacesEdges ==
    Succeeded("update_note") =>
        LET n == request.params
        IN  /\ OutgoingOf(graph.links_to, n.path)
                 = SetToBag(Wanted(n.path, n.wikilinks, "target_path"))
            /\ OutgoingOf(graph.mentions, n.path)
                 = SetToBag(Wanted(n.path, n.mentions, "name"))
            /\ OutgoingOf(graph.has_tag, n.path)
                 = SetToBag(Wanted(n.path, n.hashtags, "name"))

\* A note that linked to PBob and mentioned bob is resynced linking only to
\* PA: one LINKS_TO to PA is all it has.
C1_Witness ==
    /\ Succeeded("update_note")
    /\ request.params.path = PA
    /\ \E e \in BagToSet(before.links_to) : e.src = PA /\ e.dst = PBob
    /\ \E e \in BagToSet(before.mentions) : e.src = PA
    /\ OutgoingOf(graph.links_to, PA)
         = SetToBag({[src |-> PA, dst |-> PA, line_number |-> 1]})
    /\ OutgoingOf(graph.mentions, PA) = EmptyBag

-----------------------------------------------------------------------------
(* C2 *)

\* The outgoing LINKS_TO, MENTIONS and HAS_TAG relationships of Note(p) are
\* the same in g and h.
SameOutgoing(g, h, p) ==
    /\ OutgoingOf(g.links_to, p) = OutgoingOf(h.links_to, p)
    /\ OutgoingOf(g.mentions, p) = OutgoingOf(h.mentions, p)
    /\ OutgoingOf(g.has_tag, p) = OutgoingOf(h.has_tag, p)

\* The errors list of the reindex under way or just answered.
ReindexErrors ==
    IF pc = "reindexing" THEN progress.errors ELSE response.data.errors

\* One relationship from p per record with a non-empty key of the entries
\* for p among notes.
WantedOfAll(notes, p, field, key) ==
    UNION {Wanted(p, notes[i][field], key) :
              i \in {j \in DOMAIN notes : notes[j].path = p}}

-----------------------------------------------------------------------------
(* C3 *)

\* C3: update_note is idempotent on the graph: after a successful
\* update_note, applying it again with the same arguments, at any clock
\* value, leaves the same nodes and relationships, last_modified apart; and
\* no relationship of the note is doubled, also when a list repeats a record.
C3_SyncIdempotent ==
    Succeeded("update_note") =>
        LET n == request.params
        IN  /\ \A now \in Times :
                 WithoutLastModified(Synced(graph, n, now))
                    = WithoutLastModified(graph)
            /\ NoCopies(OutgoingOf(graph.links_to, n.path))
            /\ NoCopies(OutgoingOf(graph.mentions, n.path))
            /\ NoCopies(OutgoingOf(graph.has_tag, n.path))
            /\ NoCopies(IncomingOf(graph.has_note, n.path))

\* The profile note PBob, already in the graph, is resynced with a wikilink
\* record given twice: one LINKS_TO and one HAS_NOTE.
C3_Witness ==
    /\ Succeeded("update_note")
    /\ request.params.path = PBob
    /\ request.params.wikilinks
         = << [target_path |-> PA, line_number |-> 1],
              [target_path |-> PA, line_number |-> 1] >>
    /\ graph.links_to[[src |-> PBob, dst |-> PA, line_number |-> 1]] = 1
    /\ graph.has_note[[src |-> Bob, dst |-> PBob]] = 1
    /\ NotesAt(before, PBob) # {}

-----------------------------------------------------------------------------
(* C4 *)

\* The Tag nodes of g without an incoming HAS_TAG, and the Person nodes of g
\* without an incoming MENTIONS and without an outgoing HAS_NOTE.
OrphanTags(g) == {t \in BagToSet(g.tags) : To(g.has_tag, t.name) = {}}
OrphanPersons(g) ==
    {p \in BagToSet(g.persons) :
        To(g.mentions, p.name) = {} /\ From(g.has_note, p.name) = {}}

\* C4: right after a successful delete_note the graph has no Tag without an
\* incoming HAS_TAG and no Person without both an incoming MENTIONS and an
\* outgoing HAS_NOTE (so the Person only the deleted note mentioned, and the
\* Tag only it carried, are gone), and every Tag or Person that another note
\* still refers to is kept as it was.
C4_DeleteSweepsOrphans ==
    Succeeded("delete_note") =>
        LET q == request.params.path
        IN  /\ OrphanTags(graph) = {}
            /\ OrphanPersons(graph) = {}
            /\ \A t \in BagToSet(before.tags) :
                 To(before.has_tag, t.name) \ From(before.has_tag, q) # {}
                    => CopiesIn(t, graph.tags) = CopiesIn(t, before.tags)
            /\ \A p \in BagToSet(before.persons) :
                 \/ To(before.mentions, p.name) \ From(before.mentions, q) # {}
                 \/ From(before.has_note, p.name) \ To(before.has_note, q) # {}
                 => CopiesIn(p, graph.persons) = CopiesIn(p, before.persons)

\* PA is the one note that mentions bob and the one that carries #x, and bob
\* has no profile note; delete_note of PA removes both.
C4_Witness ==
    /\ Succeeded("delete_note")
    /\ request.params.path = PA
    /\ To(before.mentions, Bob) = {[src |-> PA, dst |-> Bob, line_number |-> 1]}
    /\ To(before.has_tag, TagX) = {[src |-> PA, dst |-> TagX, line_number |-> 1]}
    /\ From(before.has_note, Bob) = {}
    /\ PersonsNamed(graph, Bob) = {}
    /\ TagsNamed(graph, TagX) = {}

-----------------------------------------------------------------------------
(* C5 *)

\* C5: after a successful delete_note(path) no Note has that path and no
\* relationship starts or ends at it; the other Note nodes, with their
\* properties, and the relationships that touch no deleted node are as they
\* were; the response is {deleted: path}, whether or not a Note had the
\* path; and a further delete_note(path) changes nothing.
C5_DeleteFrame ==
    Succeeded("delete_note") =>
        LET q == request.params.path
        IN  /\ NotesAt(graph, q) = {}
            /\ From(graph.links_to, q) \cup To(graph.links_to, q) = {}
            /\ From(graph.mentions, q) \cup From(graph.has_tag, q) = {}
            /\ To(graph.has_note, q) = {}
            /\ graph.notes = BagWithout(before.notes, NotesAt(before, q))
            /\ graph.links_to
                 = BagWithout(before.links_to,
                              From(before.links_to, q) \cup To(before.links_to, q))
            /\ graph.mentions = BagWithout(before.mentions, From(before.mentions, q))
            /\ graph.has_tag = BagWithout(before.has_tag, From(before.has_tag, q))
            /\ graph.has_note = BagWithout(before.has_note, To(before.has_note, q))
            /\ response = Success([deleted |-> q])
            /\ LET stmts == DeleteNoteStatements(q)
               IN  Run(graph, stmts, Len(stmts)) = graph

\* PA and PBob link to each other; delete_note of PA leaves PBob's node alone
\* and no LINKS_TO at all.
C5_Witness ==
    /\ Succeeded("delete_note")
    /\ request.params.path = PA
    /\ BagIn([src |-> PA, dst |-> PBob, line_number |-> 1], before.links_to)
    /\ BagIn([src |-> PBob, dst |-> PA, line_number |-> 1], before.links_to)
    /\ \E n \in NotesAt(before, PBob) : "title" \in DOMAIN n /\ BagIn(n, graph.notes)
    /\ NotesAt(graph, PA) = {}
    /\ graph.links_to = EmptyBag

\* delete_note of a path that no Note has answers {deleted: path} too.
C5_AbsentNoteDeleted ==
    /\ Succeeded("delete_note")
    /\ NotesAt(before, request.params.path) = {}
    /\ graph.notes = before.notes
    /\ graph.notes # EmptyBag

-----------------------------------------------------------------------------
(* C6 *)

\* The number of nodes of the bag b that are in the set S.
RECURSIVE Count(_, _)
Count(b, S) ==
    IF S = {} THEN 0
    ELSE LET e == CHOOSE x \in S : TRUE
         IN  CopiesIn(e, b) + Count(b, S \ {e})

\* C6: in every state there is at most one Note node per path, one Person
\* node per name and one Tag node per name; a successful update_note of a
\* path leaves one node with that path, carrying the properties of the call,
\* whether the path had no node, a full note or a stub.
C6_OneNodePerKey ==
    /\ \A n \in BagToSet(graph.notes) :
          Count(graph.notes, NotesAt(graph, n.path)) = 1
    /\ \A p \in BagToSet(graph.persons) :
          Count(graph.persons, PersonsNamed(graph, p.name)) = 1
    /\ \A t \in BagToSet(graph.tags) :
          Count(graph.tags, TagsNamed(graph, t.name)) = 1
    /\ Succeeded("update_note") =>
          LET n == request.params
          IN  \E now \in Times :
                NotesAt(graph, n.path)
                  = {[path |-> n.path, title |-> n.title,
                      filename |-> Basename(n.path),
                      content_hash |-> ComputeContentHash(n.content),
                      last_modified |-> now]}

\* PBob, so far a stub made by a wikilink, is synced: its one node is now a
\* full note.
C6_Witness ==
    /\ Succeeded("update_note")
    /\ request.params.path = PBob
    /\ NotesAt(before, PBob) = {[path |-> PBob]}
    /\ Count(graph.notes, NotesAt(graph, PBob)) = 1
    /\ \A n \in NotesAt(graph, PBob) : n.title = "T1"

-----------------------------------------------------------------------------
(* C7 *)

\* C7: after a successful update_note, and for every note of a reindex that
\* is not among its errors, each wikilink record with a non-empty
\* target_path T has a Note node with path T and the LINKS_TO relationship
\* to it on the record's line; a target that had no node and is not a note
\* that was synced is a stub whose only property is its path.
C7_WikilinkTargetExists ==
    /\ Succeeded("update_note") =>
          LET n == request.params
          IN  \A e \in Wanted(n.path, n.wikilinks, "target_path") :
                /\ NotesAt(graph, e.dst) # {}
                /\ BagIn(e, graph.links_to)
                /\ (NotesAt(before, e.dst) = {} /\ e.dst # n.path)
                      => NotesAt(graph, e.dst) = {[path |-> e.dst]}
    /\ (pc = "reindexing" \/ Succeeded("reindex")) =>
          LET notes == request.params.notes
          IN  \A i \in DOMAIN notes :
                notes[i].path \notin Range(ReindexErrors) =>
                  \A e \in Wanted(notes[i].path, notes[i].wikilinks, "target_path") :
                    /\ NotesAt(graph, e.dst) # {}
                    /\ BagIn(e, graph.links_to)
                    /\ (\A j \in DOMAIN notes : notes[j].path # e.dst)
                          => NotesAt(graph, e.dst) = {[path |-> e.dst]}

\* PA is synced with a wikilink to PBob, which has no node: PBob is now a
\* stub, and the LINKS_TO ends at it.
C7_Witness ==
    /\ Succeeded("update_note")
    /\ request.params.path = PA
    /\ NotesAt(before, PBob) = {}
    /\ NotesAt(graph, PBob) = {[path |-> PBob]}
    /\ graph.links_to = SetToBag({[src |-> PA, dst |-> PBob, line_number |-> 1]})

-----------------------------------------------------------------------------
(* C8 *)

\* C8 as stated, for a target other than the note itself: when a successful
\* update_note(p) carries a wikilink to a path T whose Note node exists, the
\* properties of Note(T) and the relationships that start or end at T are
\* as before, but for the LINKS_TO from p to T of this call, which are added.
C8_ExistingTargetUntouched ==
    Succeeded("update_note") =>
        LET n == request.params
            wanted == Wanted(n.path, n.wikilinks, "target_path")
        IN  \A T \in {e.dst : e \in wanted} \ {n.path} :
              NotesAt(before, T) # {} =>
                /\ NotesAt(graph, T) = NotesAt(before, T)
                /\ SameOutgoing(graph, before, T)
                /\ IncomingOf(graph.has_note, T) = IncomingOf(before.has_note, T)
                /\ To(graph.links_to, T)
                     = To(before.links_to, T) \cup {e \in wanted : e.dst = T}

\* C8, amended: when a successful update_note(p) carries a wikilink to a
\* path T other than p whose Note node exists, the properties of Note(T),
\* the relationships that start at T, the HAS_NOTE that end at T and the
\* LINKS_TO that end at T from notes other than p are as before; the
\* LINKS_TO from p to T are those of the records of this call, one each, and
\* those of an earlier sync of p are gone.  When T is p itself, Note(T) has
\* the properties of this call.
C8_ExistingOtherTargetUntouched ==
    Succeeded("update_note") =>
        LET n == request.params
            p == n.path
            wanted == Wanted(p, n.wikilinks, "target_path")
        IN  \A T \in {e.dst : e \in wanted} :
              NotesAt(before, T) # {} =>
                IF T # p
                THEN /\ NotesAt(graph, T) = NotesAt(before, T)
                     /\ CopiesIn(CHOOSE x \in NotesAt(graph, T) : TRUE, graph.notes) = 1
                     /\ SameOutgoing(graph, before, T)
                     /\ IncomingOf(graph.has_note, T) = IncomingOf(before.has_note, T)
                     /\ BagWithout(IncomingOf(graph.links_to, T), From(graph.links_to, p))
                          = BagWithout(IncomingOf(before.links_to, T),
                                       From(before.links_to, p))
                     /\ BagWithout(OutgoingOf(graph.links_to, p),
                                   {e \in From(graph.links_to, p) : e.dst # T})
                          = SetToBag(To(SetToBag(wanted), T))
                ELSE \E now \in Times :
                       NotesAt(graph, T)
                         = {[path |-> p, title |-> n.title,
                             filename |-> Basename(p),
                             content_hash |-> ComputeContentHash(n.content),
                             last_modified |-> now]}

\* PBob, a synced note titled T2 that links to itself, is the target of a
\* wikilink of PA on line 2, where PA linked to it on line 1 before: PBob's
\* node and own link are as they were, and PA's link is the one on line 2.
C8_Witness ==
    /\ Succeeded("update_note")
    /\ request.params.path = PA
    /\ request.params.wikilinks = << [target_path |-> PBob, line_number |-> 2] >>
    /\ \E n \in NotesAt(before, PBob) : "title" \in DOMAIN n /\ n.title = "T2"
    /\ BagIn([src |-> PA, dst |-> PBob, line_number |-> 1], before.links_to)
    /\ BagIn([src |-> PBob, dst |-> PBob, line_number |-> 1], before.links_to)
    /\ NotesAt(graph, PBob) = NotesAt(before, PBob)
    /\ To(graph.links_to, PBob) = {[src |-> PA, dst |-> PBob, line_number |-> 2],
                                   [src |-> PBob, dst |-> PBob, line_number |-> 1]}

-----------------------------------------------------------------------------
(* C9 *)

\* C9: orphan removal is lazy and global.  No update_note, whatever its
\* outcome, removes a Tag or a Person, so one that a resync has left without
\* relationships stays through every later update_note; a successful
\* delete_note of any path, also one no Note has, removes every Tag and
\* Person that was an orphan when it was asked.
C9_LazyGlobalSweep ==
    /\ Handled("update_note") =>
          /\ \A t \in BagToSet(before.tags) : BagIn(t, graph.tags)
          /\ \A p \in BagToSet(before.persons) : PersonsNamed(graph, p.name) # {}
    /\ Succeeded("delete_note") =>
          /\ \A t \in OrphanTags(before) : TagsNamed(graph, t.name) = {}
          /\ \A p \in OrphanPersons(before) : PersonsNamed(graph, p.name) = {}

\* #x lost its last HAS_TAG and bob its last MENTIONS in a resync, further
\* requests went by, and a delete_note of PBob, a path with no Note, removes
\* them; the note PA is still there.
C9_Witness ==
    /\ Succeeded("delete_note")
    /\ request.params.path = PBob
    /\ NotesAt(before, PBob) = {}
    /\ NotesAt(before, PA) # {}
    /\ OrphanTags(before) = {[name |-> TagX]}
    /\ OrphanPersons(before) = {[name |-> Bob]}
    /\ graph.tags = EmptyBag /\ graph.persons = EmptyBag
    /\ graph.notes = before.notes

\* An update_note answered while the graph holds an orphan Tag, which stays.
C9_OrphanOutlivesUpdate ==
    /\ Succeeded("update_note")
    /\ OrphanTags(before) = {[name |-> TagX]}
    /\ OrphanTags(graph) = {[name |-> TagX]}

-----------------------------------------------------------------------------
(* C10 *)

\* C10: after a successful update_note of a path that contains "/people/"
\* there is one Person named by the stem of the filename, with one HAS_NOTE
\* to the note; update_note of another path adds no HAS_NOTE.  A delete_note
\* of q, whatever its outcome, keeps every Person that has a HAS_NOTE to a
\* note other than q, mentioned or not; a Person it removes had no HAS_NOTE
\* but to q and no MENTIONS but from q.
C10_ProfileNote ==
    /\ Succeeded("update_note") =>
          LET p == request.params.path
              name == Stem(Basename(p))
          IN  IF Contains(p, PeopleSegment)
              THEN /\ PersonsNamed(graph, name)
                        = {[name |-> name, display_name |-> name]}
                   /\ Count(graph.persons, PersonsNamed(graph, name)) = 1
                   /\ OutgoingOf(graph.has_note, name)
                        = SetToBag({[src |-> name, dst |-> p]})
                   /\ IncomingOf(graph.has_note, p)
                        = SetToBag({[src |-> name, dst |-> p]})
              ELSE graph.has_note = before.has_note
    /\ Handled("delete_note") =>
          LET q == request.params.path
          IN  \A person \in BagToSet(before.persons) :
                LET profiles == From(before.has_note, person.name)
                                   \ To(before.has_note, q)
                    mentions == To(before.mentions, person.name)
                                   \ From(before.mentions, q)
                IN  /\ profiles # {} => BagIn(person, graph.persons)
                    /\ ~BagIn(person, graph.persons)
                          => profiles = {} /\ mentions = {}

\* bob has the profile note PBob and no note mentions bob; delete_note of PA
\* succeeds and bob is still there.
C10_Witness ==
    /\ Succeeded("delete_note")
    /\ request.params.path = PA
    /\ NotesAt(before, PA) # {}
    /\ From(before.has_note, Bob) = {[src |-> Bob, dst |-> PBob]}
    /\ To(before.mentions, Bob) = {}
    /\ PersonsNamed(graph, Bob) = {[name |-> Bob, display_name |-> Bob]}

-----------------------------------------------------------------------------
(* C11 *)

\* The records with a non-empty key among the lists named field of the notes.
KeysOfAll(notes, field, key) ==
    {r[key] : r \in UNION {{x \in Range(notes[i][field]) : x[key] # Empty} :
                              i \in DOMAIN notes}}

\* C11: once reindex has cleared the graph nothing is left of it, and from
\* then on, up to its successful response, every Note is at the path of a
\* note of the collection taken so far or at a wikilink target of one, every
\* Person is mentioned by one or is named by the filename of one under
\* /people/, and every Tag is carried by one; with an empty collection the
\* graph is empty.
C11_ReindexRebuilds ==
    /\ pc = "cleared" => graph = EmptyGraph
    /\ (pc = "reindexing" \/ Succeeded("reindex")) =>
          LET notes == request.params.notes
              paths == {notes[i].path : i \in DOMAIN notes}
          IN  /\ \A n \in BagToSet(graph.notes) :
                    n.path \in paths \cup KeysOfAll(notes, "wikilinks", "target_path")
              /\ \A p \in BagToSet(graph.persons) :
                    p.name \in KeysOfAll(notes, "mentions", "name")
                       \cup {Stem(Basename(q)) :
                                q \in {x \in paths : Contains(x, PeopleSegment)}}
              /\ \A t \in BagToSet(graph.tags) :
                    t.name \in KeysOfAll(notes, "hashtags", "name")
              /\ notes = << >> => graph = EmptyGraph

\* A reindex has cleared a graph that held the note PA, the person bob and
\* the tag #x.
C11_Witness ==
    /\ pc = "cleared"
    /\ NotesAt(before, PA) # {}
    /\ PersonsNamed(before, Bob) # {}
    /\ TagsNamed(before, TagX) # {}
    /\ graph = EmptyGraph

\* ---------------------------------------------------------------------------
\* C12  reindex: a failure on one entry does not abort the batch
\* ---------------------------------------------------------------------------

\* C12: in reindex, a failure while processing any single entry (a failing
\* statement, or an entry that is not a record) is recorded as one error item
\* and the remaining entries are still processed: a reindex that reached its
\* loop and took at least one entry reports success with total = the number
\* of entries and indexed + the number of errors = total.
C12_EntryFailureDoesNotAbort ==
    (Handled("reindex") /\ ~BadParams(request) /\ request.params.notes # << >>) =>
        /\ response.success
        /\ response.data.total = Len(request.params.notes)
        /\ response.data.indexed + Len(response.data.errors) = response.data.total

\* The call that breaks C12: the graph was cleared, an entry that is not a
\* record was met, and the whole call answered "Reindex failed".
C12_Witness ==
    /\ Handled("reindex")
    /\ ~BadParams(request)
    /\ request.params.notes # << >>
    /\ request.params.notes[Len(request.params.notes)] \in MalformedEntries
    /\ response = Failure("Reindex failed")
    /\ BagCardinality(before.notes) = 0

\* ---------------------------------------------------------------------------
\* C13  reindex: counts, and no Note for a failed path
\* ---------------------------------------------------------------------------

\* C13: a reindex over N notes of which M fail returns indexed = N - M,
\* total = N and M error entries, and afterwards the graph holds no Note node
\* for any of the M failed paths.
C13_FailedPathsHaveNoNote ==
    Succeeded("reindex") =>
        LET N == Len(request.params.notes)
            M == Len(response.data.errors)
        IN  /\ response.data.total = N
            /\ response.data.indexed = N - M
            /\ \A p \in Range(response.data.errors) : NotesAt(graph, p) = {}

\* The call that breaks C13: the only entry failed after its MERGE of the
\* Note, so the one reported error names a path whose Note node is in the
\* graph.
C13_Witness ==
    /\ Succeeded("reindex")
    /\ Len(request.params.notes) = 1
    /\ response.data.indexed = 0
    /\ response.data.errors = <<request.params.notes[1].path>>
    /\ NotesAt(graph, request.params.notes[1].path) # {}

\* ---------------------------------------------------------------------------
\* C14  no connection: "Not connected", no statement, no change
\* ---------------------------------------------------------------------------

\* The actions whose handlers check the handle before anything else.
NeedConnection == {"update_note", "delete_note", "query", "reindex", "stats"}

\* C14: while the bridge holds no connection (its handle is unset), each of
\* update_note, delete_note, query, reindex and stats answers with
\* success = false and the error "Not connected", sends no statement to the
\* database and leaves the graph unchanged.
C14_NotConnected ==
    [][(pc = "handling" /\ line = "object" /\ request.action \in NeedConnection
          /\ ~BadParams(request) /\ ~connection) =>
         /\ pc' = "responded"
         /\ response' = [success |-> FALSE, error |-> "Not connected"]
         /\ sent' = 1
         /\ ~issued'
         /\ graph' = graph
         /\ connection' = connection]_vars

\* A reindex answered "Not connected" over a graph that holds a note: the
\* graph was not cleared.
C14_Witness ==
    /\ Handled("reindex")
    /\ ~connection
    /\ response = NotConnected
    /\ ~issued
    /\ graph.notes # EmptyBag
    /\ graph = before

\* ---------------------------------------------------------------------------
\* C17  one request at a time, one response per request
\* ---------------------------------------------------------------------------

\* run is inside a handler: the line has been read and not yet answered.
InHandler == pc \in {"handling", "cleared", "reindexing"}

\* C17: the bridge handles requests strictly one at a time. Every non-blank
\* line other than quit produces exactly one response: none while its
\* handler runs, one when the loop goes back to readline. Blank lines, quit
\* and the end of input produce none. No line is read while a handler runs,
\* so responses come in the order of their requests, and statements go to
\* the database only inside a handler, so all those of one request are
\* issued before the next line is read.
C17_OneAtATime ==
    /\ [](/\ InHandler => sent = 0
          /\ pc = "responded" =>
                /\ sent = 1
                /\ line \in {"invalid", "value", "object"}
                /\ line = "object" => request.action # "quit"
          /\ line = "blank" => (pc = "idle" /\ sent = 0)
          /\ pc = "stopped" =>
                /\ sent = 0
                /\ line = "eof" \/ (line = "object" /\ request.action = "quit"))
    /\ [][/\ pc # "idle" => (line' = line \/ (pc = "responded" /\ pc' = "idle"))
          /\ ~InHandler => (graph' = graph /\ (issued' => issued))
          /\ (InHandler /\ ~InHandler') =>
                \/ pc' = "responded" /\ sent' = 1
                \/ pc' = "stopped" /\ request.action = "quit"]_vars

\* An update_note that sent several statements and then its one response.
C17_Witness ==
    /\ Succeeded("update_note")
    /\ sent = 1
    /\ issued
    /\ BagCardinality(graph.notes) >= 2
    /\ BagCardinality(before.notes) = 0

\* ---------------------------------------------------------------------------
\* C18  a line that is not valid JSON
\* ---------------------------------------------------------------------------

\* C18: a non-blank input line that is not valid JSON produces one response
\* with success = false and an error that starts with "Invalid JSON",
\* changes neither the connection handle nor the graph and sends nothing to
\* the database; the loop then goes back to readline with the handle and the
\* graph as they were, so the following line is processed as any other.
C18_InvalidJson ==
    /\ []((pc = "responded" /\ line = "invalid") =>
            /\ response = [success |-> FALSE, error |-> "Invalid JSON"]
            /\ sent = 1
            /\ ~issued
            /\ graph = before
            /\ ENABLED NextLine)
    /\ [][/\ (pc = "idle" /\ line' = "invalid") =>
                /\ pc' = "responded"
                /\ graph' = graph
                /\ connection' = connection
          /\ (pc = "responded" /\ line = "invalid") =>
                /\ pc' = "idle"
                /\ graph' = graph
                /\ connection' = connection]_vars

\* A malformed line answered while a connection is held and the graph holds
\* a note.
C18_Witness ==
    /\ pc = "responded"
    /\ line = "invalid"
    /\ response = Failure("Invalid JSON")
    /\ connection
    /\ graph.notes # EmptyBag

\* ---------------------------------------------------------------------------
\* C19  unknown action
\* ---------------------------------------------------------------------------

\* C19: a request whose action is none of connect, health_check, update_note,
\* delete_note, query, reindex, stats, quit (a request without an action
\* among them, whose name reads None) is answered
\* {success: false, error: "Unknown action: <name>"}; neither the connection
\* handle nor the graph changes and nothing is sent to the database.
C19_UnknownAction ==
    /\ []((pc = "responded" /\ line = "object"
             /\ request.action \notin {"connect", "health_check", "update_note",
                                       "delete_note", "query", "reindex", "stats",
                                       "quit"}) =>
            /\ request.action = "frobnicate" =>
                  response = [success |-> FALSE, error |-> "Unknown action: frobnicate"]
            /\ request.action = None =>
                  response = [success |-> FALSE, error |-> "Unknown action: None"]
            /\ request.action \in {"frobnicate", None}
            /\ sent = 1
            /\ ~issued
            /\ graph = before)
    /\ [][(pc = "handling" /\ line = "object" /\ request.action \notin KnownActions) =>
            /\ pc' = "responded"
            /\ graph' = graph
            /\ connection' = connection]_vars

\* A request without an action, answered while a connection is held and the
\* graph holds a note.
C19_Witness ==
    /\ pc = "responded"
    /\ line = "object"
    /\ request.action = None
    /\ response = Failure("Unknown action: None")
    /\ connection
    /\ graph.notes # EmptyBag

\* ---------------------------------------------------------------------------
\* The tool server (server.py). It is a program of its own: the variables
\* hold its state when the process started as the server, with pc at one of
\* the positions below, request the tool call at hand, response the result
\* returned and progress the locals of the call.
\* ---------------------------------------------------------------------------

\* The positions of the server.
ServerPositions ==
    {"main", "serving", "call_tool", "is_connected", "connect", "execute",
     "query_done", "returned"}

\* get_graph_stats: the keys of queries, in their order.
queries == << "notes", "tags", "persons", "links", "mentions", "tag_usages" >>

\* No exception has been raised.
NoError == "none"

\* The locals of a tool call: the stats collected so far and the keys whose
\* query raised; for the call of query under way, the outcome of the probe
\* ("none" while no probe was sent), the numbers of RETURN 1 probes, of calls
\* of connect and of executions of the statement, the rows fetched, the
\* exception raised and, where the tool computes them from its argument, the
\* params of the statement.
NoLocals ==
    [stats |-> << >>, raised_for |-> {}, probe |-> "none", probes |-> 0,
     connects |-> 0, executed |-> 0, rows |-> << >>, error |-> NoError,
     params |-> << >>]

\* The locals at the entry of query.
EnterQuery(locals) ==
    [locals EXCEPT !.probe = "none", !.probes = 0, !.connects = 0,
                   !.executed = 0, !.rows = << >>, !.error = NoError,
                   !.params = << >>]

\* An empty arguments object.
NoArguments == << >>

\* The tool calls taken: a tool that sends no statement, query_graph with and
\* without its cypher argument, get_graph_stats and a name that is no tool.
ToolCalls ==
    {[name |-> "get_search_instructions", arguments |-> NoArguments],
     [name |-> "query_graph", arguments |-> [cypher |-> "MATCH (n:Note) RETURN count(n)"]],
     [name |-> "query_graph", arguments |-> NoArguments],
     [name |-> "get_graph_stats", arguments |-> NoArguments],
     [name |-> "frobnicate", arguments |-> NoArguments]}

\* The tools of call_tool that are modelled.
KnownTools ==
    {"get_search_instructions", "query_graph", "get_graph_stats", "get_related",
     "get_note_context", "get_backlinks", "find_by_tag", "find_by_mention",
     "find_journals_by_date"}

\* [TextContent(type="text", text=...)] for a plain text.
Text(text) == [type |-> "text", text |-> text]

\* [TextContent(type="text", text=json.dumps(results, indent=2))]
Json(results) == [type |-> "text", json |-> results]

\* What the database may hold when the server starts: nothing, or the notes
\* of an earlier update_note.
ServerGraphs ==
    {EmptyGraph}
    \cup {Run(EmptyGraph, UpdateNoteStatements(n, "t1"),
              Len(UpdateNoteStatements(n, "t1"))) : n \in Universe.notes}

\* MemgraphNotesServer(): no handle yet; main has not run.
InitServer ==
    /\ connection = FALSE
    /\ graph \in ServerGraphs
    /\ pc = "main"
    /\ request = NoRequest
    /\ response = NoResponse
    /\ progress = NoLocals
    /\ before = EmptyGraph
    /\ line = "none"
    /\ sent = 0
    /\ issued = FALSE
    /\ HAS_MGCLIENT \in BOOLEAN

\* main: one call of connect, whose result only chooses the message printed
\* to stderr; then the server waits for tool calls.
Main ==
    /\ pc = "main"
    /\ IF ~HAS_MGCLIENT
       THEN UNCHANGED connection
       ELSE \E ok \in BOOLEAN : connection' = ok
    /\ pc' = "serving"
    /\ UNCHANGED <<graph, request, response, progress, before, line, sent,
                   issued, HAS_MGCLIENT>>

\* call_tool is entered with a name and arguments.
CallTool ==
    /\ pc = "serving"
    /\ request' \in ToolCalls
    /\ pc' = "call_tool"
    /\ progress' = NoLocals
    /\ before' = graph
    /\ sent' = 0
    /\ issued' = FALSE
    /\ UNCHANGED <<connection, graph, response, line, HAS_MGCLIENT>>

\* call_tool, get_search_instructions: the text, no statement.
GetSearchInstructions ==
    /\ pc = "call_tool"
    /\ request.name = "get_search_instructions"
    /\ response' = Text("SEARCH_INSTRUCTIONS")
    /\ sent' = sent + 1
    /\ pc' = "returned"
    /\ UNCHANGED <<connection, graph, request, progress, before, line, issued,
                   HAS_MGCLIENT>>

\* call_tool, the else branch.
UnknownTool ==
    /\ pc = "call_tool"
    /\ request.name \notin KnownTools
    /\ response' = Text("Unknown tool: " \o request.name)
    /\ sent' = sent + 1
    /\ pc' = "returned"
    /\ UNCHANGED <<connection, graph, request, progress, before, line, issued,
                   HAS_MGCLIENT>>

\* call_tool, query_graph: arguments["cypher"] raises KeyError, which the
\* except clause of call_tool turns into a text; otherwise query is entered.
QueryGraph ==
    /\ pc = "call_tool"
    /\ request.name = "query_graph"
    /\ IF "cypher" \notin DOMAIN request.arguments
       THEN /\ response' = Text("Error: " \o "'cypher'")
            /\ sent' = sent + 1
            /\ pc' = "returned"
            /\ UNCHANGED progress
       ELSE /\ progress' = EnterQuery(progress)
            /\ pc' = "is_connected"
            /\ UNCHANGED <<response, sent>>
    /\ UNCHANGED <<connection, graph, request, before, line, issued, HAS_MGCLIENT>>

\* The dict that get_graph_stats returns, from the values in the order of
\* queries.
StatsDict(stats) ==
    [key \in Range(queries) |->
        stats[CHOOSE i \in DOMAIN queries : queries[i] = key]]

\* call_tool, get_graph_stats, at the head of the loop over queries: query is
\* entered for the next key, or the stats are returned.
GetGraphStats ==
    /\ pc = "call_tool"
    /\ request.name = "get_graph_stats"
    /\ IF Len(progress.stats) < Len(queries)
       THEN /\ progress' = EnterQuery(progress)
            /\ pc' = "is_connected"
            /\ UNCHANGED <<response, sent>>
       ELSE /\ response' = Json(StatsDict(progress.stats))
            /\ sent' = sent + 1
            /\ pc' = "returned"
            /\ UNCHANGED progress
    /\ UNCHANGED <<connection, graph, request, before, line, issued, HAS_MGCLIENT>>

\* is_connected that leaves the handle in place when the probe raises.
IsConnectedKeepsHandle ==
    /\ pc = "is_connected"
    /\ IF ~connection
       THEN /\ pc' = "connect"
            /\ UNCHANGED <<progress, issued>>
       ELSE \E ok \in BOOLEAN :
              /\ progress' = [progress EXCEPT !.probes = @ + 1,
                                 !.probe = IF ok THEN "ok" ELSE "failed"]
              /\ issued' = TRUE
              /\ pc' = IF ok THEN "execute" ELSE "connect"
    /\ UNCHANGED <<connection, graph, request, response, before, line, sent,
                   HAS_MGCLIENT>>

\* query calls ensure_connected, which calls is_connected: without a handle
\* the answer is False at once; with one, RETURN 1 is sent, and if it raises
\* the handle is cleared. On False ensure_connected goes on to connect.
IsConnected ==
    /\ pc = "is_connected"
    /\ IF ~connection
       THEN /\ pc' = "connect"
            /\ UNCHANGED <<connection, progress, issued>>
       ELSE \E ok \in BOOLEAN :
              /\ progress' = [progress EXCEPT !.probes = @ + 1,
                                 !.probe = IF ok THEN "ok" ELSE "failed"]
              /\ issued' = TRUE
              /\ connection' = ok
              /\ pc' = IF ok THEN "execute" ELSE "connect"
    /\ UNCHANGED <<graph, request, response, before, line, sent, HAS_MGCLIENT>>

\* ensure_connected's call of connect: False without mgclient or when
\* mgclient.connect raises, and then query raises "Not connected to
\* Memgraph"; with a new handle query goes on to the statement.
ServerConnect ==
    /\ pc = "connect"
    /\ \E ok \in (IF HAS_MGCLIENT THEN BOOLEAN ELSE {FALSE}) :
         /\ connection' = (ok \/ connection)
         /\ progress' = [progress EXCEPT !.connects = @ + 1,
                            !.error = IF ok THEN NoError
                                      ELSE "Not connected to Memgraph"]
         /\ pc' = IF ok THEN "execute" ELSE "query_done"
    /\ UNCHANGED <<graph, request, response, before, line, sent, issued,
                   HAS_MGCLIENT>>

\* The key whose count the statement of the call under way returns.
CountedKey ==
    IF request.name = "get_graph_stats"
    THEN queries[Len(progress.stats) + 1]
    ELSE "notes"

\* get_related: LIMIT 20.
RelatedLimit == 20

RECURSIVE SumOver(_, _)
\* The sum of f[e] over the elements e of the set S.
SumOver(S, f) ==
    IF S = {} THEN 0
    ELSE LET e == CHOOSE e \in S : TRUE
         IN  f[e] + SumOver(S \ {e}, f)

\* A property that a node does not have, or the property of an OPTIONAL
\* MATCH that found nothing, is null: None where a title is read, NullKey
\* where a path is read.
NullKey == << None >>

\* n.title
TitleOf(n) == IF "title" \in DOMAIN n THEN n.title ELSE None

\* The number of relationships of the bag b from the node keyed src to the
\* node keyed dst.
EdgesBetween(b, src, dst) == SumOver({e \in From(b, src) : e.dst = dst}, b)

\* The keys of the nodes that relationships of the bag b join both to the
\* node keyed p and to the node keyed q.
SharedVia(b, p, q) ==
    {e.dst : e \in From(b, p)} \cap {e.dst : e \in From(b, q)}

\* The number of rows that
\*   MATCH (source)-[:HAS_TAG|MENTIONS]->(shared)<-[:HAS_TAG|MENTIONS]-(related)
\* gives for one related note through the relationships of the bag b: one
\* for each pair of a relationship from source and one from related that
\* end at the same node.
MatchedVia(b, p, q) ==
    SumOver(SharedVia(b, p, q),
            [d \in SharedVia(b, p, q) |->
                EdgesBetween(b, p, d) * EdgesBetween(b, q, d)])

\* labels(shared)[0] + ': ' + COALESCE(shared.name, '')
Connection(label, name) == label \o <<":", " ">> \o name

\* The row of get_related's statement for one related note:
\*   WITH related, count(shared) AS shared_count,
\*        collect(DISTINCT ...) AS connections
\*   RETURN related.path, related.title, shared_count, connections
\* The order of the collected list is not fixed by the statement; the list
\* is held as the set of its elements.
RelatedRow(g, path, related) ==
    << related.path, TitleOf(related),
       MatchedVia(g.has_tag, path, related.path)
           + MatchedVia(g.mentions, path, related.path),
       {Connection(<<"T", "a", "g">>, d) : d \in SharedVia(g.has_tag, path, related.path)}
           \cup {Connection(<<"P", "e", "r", "s", "o", "n">>, d) :
                     d \in SharedVia(g.mentions, path, related.path)} >>

\* The results fetchall may give for get_related's statement: the rows of
\* the related notes, ORDER BY shared_count DESC in any order of the ties,
\* LIMIT 20.
RelatedRows(g, path) ==
    LET rows == IF NotesAt(g, path) = {} THEN {}
                ELSE {RelatedRow(g, path, r) :
                        r \in {r \in BagToSet(g.notes) :
                                 /\ r.path # path
                                 /\ SharedVia(g.has_tag, path, r.path)
                                       \cup SharedVia(g.mentions, path, r.path)
                                       # {}}}
        n == Cardinality(rows)
        sorted == {s \in [1..n -> rows] :
                     /\ \A i, j \in 1..n : i # j => s[i] # s[j]
                     /\ \A i, j \in 1..n : i < j => s[i][3] >= s[j][3]}
    IN  {SubSeq(s, 1, IF n < RelatedLimit THEN n ELSE RelatedLimit) : s \in sorted}

\* collect(x) or collect(DISTINCT x) over a bag of values.
Collect(distinct, values) ==
    IF distinct THEN SetToBag(BagToSet(values)) ELSE values

\* The bag b with every count multiplied by k.
Scaled(b, k) == [e \in BagToSet(b) |-> b[e] * k]

\* The row of get_note_context's statement, with or without DISTINCT in its
\* four collects. Each OPTIONAL MATCH multiplies the rows by the number of
\* its matches, or leaves them with a null when it has none; collect skips
\* a null name and keeps a map of nulls. The order of the collected lists is
\* not fixed by the statement; each list is held as the bag of its elements.
ContextRowsWith(distinct, g, path) ==
    LET note == CHOOSE n \in NotesAt(g, path) : TRUE
        Node(k) == [path |-> k, title |-> TitleOf(CHOOSE n \in NotesAt(g, k) : TRUE)]
        NullMap == [path |-> NullKey, title |-> None]
        out == From(g.links_to, path)
        tagged == From(g.has_tag, path)
        named == From(g.mentions, path)
        back == To(g.links_to, path)
        nOut == SumOver(out, g.links_to)
        nTag == SumOver(tagged, g.has_tag)
        nPer == SumOver(named, g.mentions)
        nBack == SumOver(back, g.links_to)
        AtLeast1(n) == IF n = 0 THEN 1 ELSE n
        Of(b, edges, Value(_)) ==
            LET vals == {Value(e) : e \in edges}
            IN  [v \in vals |-> SumOver({e \in edges : Value(e) = v}, b)]
        OutValue(e) == Node(e.dst)
        BackValue(e) == Node(e.src)
        Name(e) == e.dst
        links == IF nOut = 0 THEN SetToBag({NullMap})
                 ELSE Of(g.links_to, out, OutValue)
        backs == IF nBack = 0 THEN SetToBag({NullMap})
                 ELSE Of(g.links_to, back, BackValue)
    IN  IF NotesAt(g, path) = {} THEN << >>
        ELSE << << TitleOf(note), note.path,
                   Collect(distinct, Scaled(links, AtLeast1(nTag) * AtLeast1(nPer)
                                                     * AtLeast1(nBack))),
                   Collect(distinct,
                           Scaled(Of(g.has_tag, tagged, Name),
                                  AtLeast1(nOut) * AtLeast1(nPer) * AtLeast1(nBack))),
                   Collect(distinct,
                           Scaled(Of(g.mentions, named, Name),
                                  AtLeast1(nOut) * AtLeast1(nTag) * AtLeast1(nBack))),
                   Collect(distinct, Scaled(backs, AtLeast1(nOut) * AtLeast1(nTag)
                                                     * AtLeast1(nPer))) >> >>

\* get_note_context's statement with collect where the code has
\* collect(DISTINCT ...).
ContextRowsWithDuplicates(g, path) == ContextRowsWith(FALSE, g, path)

\* The results of get_note_context's statement.
ContextRows(g, path) == ContextRowsWith(TRUE, g, path)

\* ORDER BY ... title: the place of a title in the order of the strings;
\* null sorts last.
TitleRank(t) == CASE t = "T1" -> 1 [] t = "T2" -> 2 [] OTHER -> 3

\* The row of the statement of get_backlinks, find_by_tag or find_by_mention
\* for the relationship e from a Note:
\*   RETURN source.path AS path, source.title AS title, r.line_number AS line
BacklinkRow(g, e) ==
    << e.src, TitleOf(CHOOSE n \in NotesAt(g, e.src) : TRUE), e.line_number >>

\* The results fetchall may give for such a statement: a row for every
\* relationship of the bag b from a Note to the node with the key dst,
\* ORDER BY the title of the Note in any order of the ties.
IncomingRows(g, b, dst) ==
    LET E == {e \in To(b, dst) : NotesAt(g, e.src) # {}}
        R == {BacklinkRow(g, e) : e \in E}
        copies == [r \in R |-> SumOver({e \in E : BacklinkRow(g, e) = r}, b)]
        n == SumOver(R, copies)
    IN  {s \in [1..n -> R] :
            /\ \A r \in R : Cardinality({i \in 1..n : s[i] = r}) = copies[r]
            /\ \A i, j \in 1..n : i < j => TitleRank(s[i][2]) <= TitleRank(s[j][2])}

\* get_backlinks: MATCH (source:Note)-[r:LINKS_TO]->(target:Note {path: $path})
BacklinkRows(g, path) == IncomingRows(g, g.links_to, path)

\* find_by_tag: MATCH (note:Note)-[r:HAS_TAG]->(t:Tag {name: $tag})
TagRows(g, tag) == IncomingRows(g, g.has_tag, tag)

\* find_by_mention: MATCH (note:Note)-[r:MENTIONS]->(p:Person {name: $person})
MentionRows(g, person) == IncomingRows(g, g.mentions, person)

\* The characters of the file names and dates, in the order of their code
\* points.
CodePoints ==
    << " ", "-", ".", "/", "0", "1", "2", "3", "4", "5", "6", "7", "8", "9",
       "a", "b", "d", "e", "j", "l", "m", "n", "o", "p", "r", "u", "x", "z" >>

\* The place of the character c in that order.
Ord(c) == CHOOSE i \in DOMAIN CodePoints : CodePoints[i] = c

RECURSIVE StrLE(_, _)
\* a <= b for strings: the order of the first characters that differ, a
\* prefix before the longer string.
StrLE(a, b) ==
    IF a = << >> THEN TRUE
    ELSE IF b = << >> THEN FALSE
    ELSE IF Head(a) = Head(b) THEN StrLE(Tail(a), Tail(b))
    ELSE Ord(Head(a)) < Ord(Head(b))

\* $end_date + 'z' without the 'z'.
UpperBoundBare(end_date) == end_date

\* $end_date + 'z'
UpperBound(end_date) == end_date \o << "z" >>

\* The Notes that the WHERE clause of find_journals_by_date_range keeps; a
\* comparison with the filename of a Note that has none is null.
JournalNotes(g, start_date, end_date) ==
    {n \in BagToSet(g.notes) :
        /\ "filename" \in DOMAIN n
        /\ Contains(n.path, <<"/", "j", "o", "u", "r", "n", "a", "l", "/">>) \/ StartsWith(n.filename, <<"2", "0">>)
        /\ StrLE(start_date, n.filename)
        /\ StrLE(n.filename, UpperBound(end_date))}

RECURSIVE FilenameDesc(_)
\* The orders ORDER BY n.filename DESC may give to the rows.
FilenameDesc(R) ==
    IF R = {} THEN {<< >>}
    ELSE UNION {{<< m >> \o s : s \in FilenameDesc(R \ {m})} :
                   m \in {m \in R : \A r \in R : StrLE(r[3], m[3])}}

\* The results fetchall may give for the statement of
\* find_journals_by_date_range: a row for each Note kept, no LIMIT.
JournalRows(g, start_date, end_date) ==
    FilenameDesc({<< n.path, TitleOf(n), n.filename >> :
                     n \in JournalNotes(g, start_date, end_date)})

\* The results fetchall may give for the statement of the call under way.
FetchAll(g, call) ==
    CASE call.name = "get_related" -> RelatedRows(g, call.arguments.note_path)
      [] call.name = "get_note_context" ->
            {ContextRows(g, call.arguments.note_path)}
      [] call.name = "get_backlinks" -> BacklinkRows(g, call.arguments.note_path)
      [] call.name = "find_by_tag" -> TagRows(g, progress.params.tag)
      [] call.name = "find_by_mention" -> MentionRows(g, progress.params.person)
      [] call.name = "find_journals_by_date" ->
            JournalRows(g, progress.params.start_date, progress.params.end_date)
      [] OTHER -> {<< << CountOf(g, CountedKey) >> >>}

\* query: cursor.execute and fetchall on the handle, once; what they raise
\* leaves query.
ServerExecute ==
    /\ pc = "execute"
    /\ \E ok \in BOOLEAN, rows \in FetchAll(graph, request) :
         progress' = [progress EXCEPT !.executed = @ + 1,
                        !.rows = IF ok THEN rows ELSE << >>,
                        !.error = IF ok THEN NoError ELSE "database error"]
    /\ issued' = TRUE
    /\ pc' = "query_done"
    /\ UNCHANGED <<connection, graph, request, response, before, line, sent,
                   HAS_MGCLIENT>>

\* call_tool, query_graph after query: the rows as JSON, or the exception as
\* an error text.
QueryGraphDone ==
    /\ pc = "query_done"
    /\ request.name = "query_graph"
    /\ response' = IF progress.error = NoError
                   THEN Json(progress.rows)
                   ELSE Text("Error: " \o progress.error)
    /\ sent' = sent + 1
    /\ pc' = "returned"
    /\ UNCHANGED <<connection, graph, request, progress, before, line, issued,
                   HAS_MGCLIENT>>

\* get_graph_stats without the try around query: the first query that
\* raises ends the call, and call_tool returns the error text.
GetGraphStatsUncaught ==
    /\ pc = "query_done"
    /\ request.name = "get_graph_stats"
    /\ IF progress.error = NoError
       THEN /\ progress' = [progress EXCEPT !.stats = Append(@, progress.rows[1][1])]
            /\ pc' = "call_tool"
            /\ UNCHANGED <<response, sent>>
       ELSE /\ progress' = [progress EXCEPT !.raised_for = @ \cup {CountedKey}]
            /\ response' = Text("Error: " \o progress.error)
            /\ sent' = sent + 1
            /\ pc' = "returned"
    /\ UNCHANGED <<connection, graph, request, before, line, issued, HAS_MGCLIENT>>

\* get_graph_stats after query: result[0][0] if result else 0, and 0 when
\* query raised; the loop goes on.
GetGraphStatsNext ==
    /\ pc = "query_done"
    /\ request.name = "get_graph_stats"
    /\ progress' =
         IF progress.error = NoError
         THEN [progress EXCEPT !.stats = Append(@, IF progress.rows # << >>
                                                  THEN progress.rows[1][1] ELSE 0)]
         ELSE [progress EXCEPT !.stats = Append(@, 0),
                               !.raised_for = @ \cup {CountedKey}]
    /\ pc' = "call_tool"
    /\ UNCHANGED <<connection, graph, request, response, before, line, sent,
                   issued, HAS_MGCLIENT>>

\* call_tool has returned its result; the server waits for the next call.
ToolReturned ==
    /\ pc = "returned"
    /\ pc' = "serving"
    /\ request' = NoRequest
    /\ response' = NoResponse
    /\ progress' = NoLocals
    /\ before' = EmptyGraph
    /\ sent' = 0
    /\ issued' = FALSE
    /\ UNCHANGED <<connection, graph, line, HAS_MGCLIENT>>

\* The steps of the server.
NextServer ==
    \/ Main
    \/ CallTool
    \/ GetSearchInstructions
    \/ UnknownTool
    \/ QueryGraph
    \/ GetGraphStats
    \/ IsConnected
    \/ ServerConnect
    \/ ServerExecute
    \/ QueryGraphDone
    \/ GetGraphStatsNext
    \/ ToolReturned

SpecServer == InitServer /\ [][NextServer]_vars

\* The process runs as the bridge or as the tool server.
InitAll == Init \/ InitServer

NextAll == NextLoop \/ NextServer

SpecAll == InitAll /\ [][NextAll]_vars

\* ---------------------------------------------------------------------------
\* C15  the server's query: one probe, at most one reconnect, no retry
\* ---------------------------------------------------------------------------

\* C15: every call of the server's query makes at most one connect attempt.
\* It first probes the handle (a handle that is unset fails the probe with no
\* statement sent); if the probe fails the handle is cleared and exactly one
\* reconnect is tried; if the reconnect succeeds the statement is executed
\* once on the new handle, and if it fails the call raises "Not connected to
\* Memgraph" without executing the statement. A statement whose execution
\* fails after a successful probe is not retried: it was executed once, no
\* connect was tried, and its exception leaves query.
C15_OneReconnect ==
    pc \in {"is_connected", "connect", "execute", "query_done"} =>
        /\ progress.probes <= 1
        /\ progress.connects <= 1
        /\ progress.executed <= 1
        /\ pc = "is_connected" =>
              progress.probes = 0 /\ progress.connects = 0 /\ progress.executed = 0
        /\ pc = "connect" =>
              /\ ~connection
              /\ progress.probe # "ok"
              /\ progress.connects = 0 /\ progress.executed = 0
        /\ pc = "execute" =>
              /\ connection
              /\ progress.executed = 0
              /\ progress.connects = (IF progress.probe = "ok" THEN 0 ELSE 1)
        /\ pc = "query_done" =>
              /\ progress.connects = (IF progress.probe = "ok" THEN 0 ELSE 1)
              /\ progress.error = "Not connected to Memgraph" <=>
                    (progress.connects = 1 /\ ~connection)
              /\ progress.error = "Not connected to Memgraph" => progress.executed = 0
              /\ progress.error # "Not connected to Memgraph" =>
                    (progress.executed = 1 /\ connection)
              /\ progress.error = NoError <=> progress.rows # << >>

\* The probe of a held handle failed, the one reconnect succeeded and the
\* statement ran once on the new handle and returned its rows.
C15_Witness ==
    /\ pc = "query_done"
    /\ request.name = "query_graph"
    /\ progress.probe = "failed"
    /\ progress.probes = 1
    /\ progress.connects = 1
    /\ progress.executed = 1
    /\ progress.error = NoError
    /\ connection

\* ---------------------------------------------------------------------------
\* C20  get_graph_stats: a failed count is 0, the call never fails
\* ---------------------------------------------------------------------------

\* C20: get_graph_stats always returns all six keys (notes, tags, persons,
\* links, mentions, tag_usages): a key whose count query failed is reported
\* as 0, every other key carries the result of its own query, and the call
\* itself never fails.
C20_StatsNeverFail ==
    (pc = "returned" /\ request.name = "get_graph_stats") =>
        /\ "json" \in DOMAIN response
        /\ DOMAIN response.json =
              {"notes", "tags", "persons", "links", "mentions", "tag_usages"}
        /\ \A key \in DOMAIN response.json :
              response.json[key] =
                 IF key \in progress.raised_for
                 THEN 0
                 ELSE CASE key = "notes" -> BagCardinality(graph.notes)
                        [] key = "tags" -> BagCardinality(graph.tags)
                        [] key = "persons" -> BagCardinality(graph.persons)
                        [] key = "links" -> BagCardinality(graph.links_to)
                        [] key = "mentions" -> BagCardinality(graph.mentions)
                        [] key = "tag_usages" -> BagCardinality(graph.has_tag)

\* The count of the tags failed while the graph holds a tag: tags is 0, and
\* notes, asked before it, and tag_usages, asked after it, are not.
C20_Witness ==
    /\ pc = "returned"
    /\ request.name = "get_graph_stats"
    /\ progress.raised_for = {"tags"}
    /\ BagCardinality(graph.tags) > 0
    /\ response.json.tags = 0
    /\ response.json.notes > 0
    /\ response.json.tag_usages > 0

\* ---------------------------------------------------------------------------
\* C16  no failure inside a request ends the processing loop
\* ---------------------------------------------------------------------------

\* The positions of the bridge.
BridgePositions ==
    {"idle", "handling", "cleared", "reindexing", "responded", "stopped"}

C21_SweepFailureSwallowed ==
    /\ (Handled("delete_note") /\ ~BadParams(request)
          /\ NotesAt(before, request.params.path) # {}
          /\ NotesAt(graph, request.params.path) = {}) => response.success
    /\ (Handled("connect") /\ ~BadParams(request) /\ connection) => response.success
    /\ pc = "cleared" => ENABLED ReindexEnsureSchema

\* The call that breaks C21: the note is gone, a Tag without HAS_TAG is left
\* because the orphan delete of the tags raised, and the answer is a failure.
C21_Witness ==
    /\ Handled("delete_note")
    /\ NotesAt(before, request.params.path) # {}
    /\ NotesAt(graph, request.params.path) = {}
    /\ OrphanTags(graph) # {}
    /\ response = Failure("Failed to delete note")

\* ---------------------------------------------------------------------------
\* C22  update_note is not atomic
\* ---------------------------------------------------------------------------

\* The records of a list that get a statement: those with a non-empty key.
WithKey(records, key) == SelectSeq(records, LAMBDA r : r[key] # Empty)

\* One relationship from path for each of the first d records of a list.
FirstWanted(path, records, key, d) ==
    {[src |-> path, dst |-> records[i][key], line_number |-> records[i].line_number] :
        i \in {j \in DOMAIN records : j <= d}}

\* C22: update_note is not atomic. When its statement number k + 1 fails,
\* after k statements have run, the response is success = false and the
\* effects of the k statements stay: from the first on, the Note carries the
\* title and content hash of the call; from the second on, the outgoing
\* relationships the note had before are gone; each relationship whose
\* statement ran exists. No later statement has run: the note has no
\* relationship of a record past the failure, and with k = 0 the graph is as
\* it was. So a failed update_note of a note that did not exist can leave
\* the Note in the graph.
C22_UpdateNotAtomic ==
    /\ (Handled("update_note") /\ ~BadParams(request) /\ connection
           /\ ~response.success) =>
          LET n == request.params
              L == WithKey(n.wikilinks, "target_path")
              M == WithKey(n.mentions, "name")
              H == WithKey(n.hashtags, "name")
              total == 2 + Len(L) + Len(M) + Len(H)
                         + (IF Contains(n.path, PeopleSegment) THEN 1 ELSE 0)
          IN  /\ response = [success |-> FALSE, error |-> "Failed to update note"]
              /\ graph.has_note = before.has_note
              /\ \E k \in 0..(total - 1) :
                    /\ k = 0 => graph = before
                    /\ k >= 1 =>
                          /\ NotesAt(graph, n.path) # {}
                          /\ \A x \in NotesAt(graph, n.path) :
                                /\ x.title = n.title
                                /\ x.content_hash = ComputeContentHash(n.content)
                    /\ k = 1 => SameOutgoing(graph, before, n.path)
                    /\ k >= 2 =>
                          /\ OutgoingOf(graph.links_to, n.path)
                                = SetToBag(FirstWanted(n.path, L, "target_path", k - 2))
                          /\ OutgoingOf(graph.mentions, n.path)
                                = SetToBag(FirstWanted(n.path, M, "name",
                                                       k - 2 - Len(L)))
                          /\ OutgoingOf(graph.has_tag, n.path)
                                = SetToBag(FirstWanted(n.path, H, "name",
                                                       k - 2 - Len(L) - Len(M)))
    /\ (Dispatched("update_note") /\ connection
           /\ NotesAt(graph, request.params.path) = {}) =>
          ENABLED (/\ UpdateNote(UniverseUpdate)
                   /\ ~response'.success
                   /\ NotesAt(graph', request.params.path) # {})

\* A note that mentioned bob is resynced with a wikilink and a hashtag; the
\* statement of the hashtag fails: the mention is gone, the wikilink is
\* there, the hashtag is not, and the answer is a failure.
C22_Witness ==
    /\ Handled("update_note")
    /\ connection
    /\ response = Failure("Failed to update note")
    /\ OutgoingOf(before.mentions, request.params.path) # EmptyBag
    /\ OutgoingOf(graph.mentions, request.params.path) = EmptyBag
    /\ OutgoingOf(graph.links_to, request.params.path) # EmptyBag
    /\ Len(request.params.hashtags) = 1
    /\ OutgoingOf(graph.has_tag, request.params.path) = EmptyBag

\* ---------------------------------------------------------------------------
\* Entity extraction (entities.py). Text is a sequence of characters. The
\* functions are applied to inputs drawn when the process starts: request
\* holds the arguments, response the value returned, pc the function.
\* ---------------------------------------------------------------------------

\* The most tokens a line given to extract_wikilinks is made of.
MaxLinkTokens == 4

\* The most tokens a line given to extract_mentions or extract_hashtags is
\* made of.
MaxTokens == 4

\* The most pieces the content of a file is made of.
MaxPieces == 4

\* [a-zA-Z]
Letters ==
    {"a", "b", "c", "d", "e", "f", "g", "h", "i", "j", "k", "l", "m", "n", "o",
     "p", "q", "r", "s", "t", "u", "v", "w", "x", "y", "z", "A", "B", "C", "D",
     "E", "F", "G", "H", "I", "J", "K", "L", "M", "N", "O", "P", "Q", "R", "S",
     "T", "U", "V", "W", "X", "Y", "Z"}

\* [a-zA-Z0-9_-]
NameChars ==
    Letters \cup {"0", "1", "2", "3", "4", "5", "6", "7", "8", "9", "_", "-"}

\* The character of s at position i, or "" past the end: what a pattern sees
\* there.
At(s, i) == IF i \in DOMAIN s THEN s[i] ELSE ""

\* s[i:]
From1(s, i) == SubSeq(s, i, Len(s))

\* Where a greedy run of characters of the set chars that starts at i ends:
\* the first position at or after i that holds no such character.
RunIn(s, i, chars) ==
    CHOOSE j \in i..(Len(s) + 1) :
        /\ At(s, j) \notin chars
        /\ \A h \in i..(j - 1) : s[h] \in chars

\* The same for a negated class: the run of characters not in chars.
RunNotIn(s, i, chars) ==
    CHOOSE j \in i..(Len(s) + 1) :
        /\ (j = Len(s) + 1 \/ s[j] \in chars)
        /\ \A h \in i..(j - 1) : s[h] \notin chars

\* No match of a pattern at a position.
NoMatch == [matched |-> FALSE]

\* WIKILINK_PATTERN  \[\[([^\]|]+)(?:\|[^\]]+)?\]\]  tried at position i:
\* group 1 is the run up to the first "]" or "|"; an alias is the run after
\* "|" up to the first "]"; "]]" must follow. No shorter run of either class
\* can be followed by what the pattern asks next.
WIKILINK_PATTERN(text, i) ==
    IF At(text, i) # "[" \/ At(text, i + 1) # "[" THEN NoMatch
    ELSE LET x == RunNotIn(text, i + 2, {"]", "|"})
             y == RunNotIn(text, x + 1, {"]"})
             close == IF At(text, x) = "|" /\ y > x + 1 THEN y ELSE x
         IN  IF x > i + 2 /\ At(text, close) = "]" /\ At(text, close + 1) = "]"
             THEN [matched |-> TRUE, group |-> SubSeq(text, i + 2, x - 1),
                   end |-> close + 2]
             ELSE NoMatch

\* MENTION_PATTERN  @([a-zA-Z][a-zA-Z0-9_-]*)  tried at position i.
MENTION_PATTERN(text, i) ==
    IF At(text, i) = "@" /\ At(text, i + 1) \in Letters
    THEN LET e == RunIn(text, i + 2, NameChars)
         IN  [matched |-> TRUE, group |-> SubSeq(text, i + 1, e - 1), end |-> e]
    ELSE NoMatch

\* HASHTAG_PATTERN  (?<![/=])#([a-zA-Z][a-zA-Z0-9_-]*)  tried at position i.
HASHTAG_PATTERN(text, i) ==
    IF /\ At(text, i) = "#"
       /\ At(text, i + 1) \in Letters
       /\ At(text, i - 1) \notin {"/", "="}
    THEN LET e == RunIn(text, i + 2, NameChars)
         IN  [matched |-> TRUE, group |-> SubSeq(text, i + 1, e - 1), end |-> e]
    ELSE NoMatch

\* A stoplist without "edit".
EXCLUDED_HASHTAGS_WithoutEdit == {<<"g", "i", "d">>, <<"b", "r", "o", "w", "s", "e">>, <<"r", "e", "s", "o", "u", "r", "c", "e">>}

\* EXCLUDED_HASHTAGS
EXCLUDED_HASHTAGS == {<<"g", "i", "d">>, <<"b", "r", "o", "w", "s", "e">>, <<"e", "d", "i", "t">>, <<"r", "e", "s", "o", "u", "r", "c", "e">>}

\* The email test without ".nl".
EmailSuffixesWithoutNl == {<<"@">>, <<".", "c", "o", "m">>, <<".", "c", "o">>, <<".", "o", "r", "g">>, <<".", "i", "o">>, <<".", "u", "k">>}

\* What follows a mention that is part of an email address.
EmailSuffixes == {<<"@">>, <<".", "c", "o", "m">>, <<".", "c", "o">>, <<".", "o", "r", "g">>, <<".", "i", "o">>, <<".", "n", "l">>, <<".", "u", "k">>}

\* os.path.join(a, b): b alone when it is absolute, else a and b with one
\* separator between them.
PathJoin(a, b) ==
    IF At(b, 1) = "/" THEN b
    ELSE IF a = << >> \/ a[Len(a)] = "/" THEN a \o b
    ELSE a \o <<"/">> \o b

RECURSIVE extract_wikilinks_from(_, _, _, _)
\* The loop of extract_wikilinks over pattern.finditer(line), from position i
\* on: the scan moves by one character where the pattern fails and to the
\* end of the match where it matches.
extract_wikilinks_from(text, line_num, notes_root, i) ==
    IF i > Len(text) THEN << >>
    ELSE LET m == WIKILINK_PATTERN(text, i)
         IN  IF m.matched
             THEN << [target |-> m.group,
                      target_path |-> PathJoin(notes_root, m.group \o <<".", "m", "d">>),
                      line_number |-> line_num] >>
                  \o extract_wikilinks_from(text, line_num, notes_root, m.end)
             ELSE extract_wikilinks_from(text, line_num, notes_root, i + 1)

extract_wikilinks(text, line_num, notes_root) ==
    extract_wikilinks_from(text, line_num, notes_root, 1)

RECURSIVE extract_mentions_from(_, _, _)
\* The loop of extract_mentions from position i on.
extract_mentions_from(text, line_num, i) ==
    IF i > Len(text) THEN << >>
    ELSE LET m == MENTION_PATTERN(text, i)
         IN  IF m.matched
             THEN (IF \E suffix \in EmailSuffixes :
                         StartsWith(From1(text, m.end), suffix)
                   THEN << >>
                   ELSE << [name |-> m.group, line_number |-> line_num] >>)
                  \o extract_mentions_from(text, line_num, m.end)
             ELSE extract_mentions_from(text, line_num, i + 1)

extract_mentions(text, line_num) == extract_mentions_from(text, line_num, 1)

RECURSIVE extract_hashtags_from(_, _, _)
\* The loop of extract_hashtags from position i on.
extract_hashtags_from(text, line_num, i) ==
    IF i > Len(text) THEN << >>
    ELSE LET m == HASHTAG_PATTERN(text, i)
         IN  IF m.matched
             THEN (IF m.group \in EXCLUDED_HASHTAGS
                   THEN << >>
                   ELSE << [name |-> m.group, line_number |-> line_num] >>)
                  \o extract_hashtags_from(text, line_num, m.end)
             ELSE extract_hashtags_from(text, line_num, i + 1)

extract_hashtags(text, line_num) == extract_hashtags_from(text, line_num, 1)

\* The argument notes_root when the caller leaves it out (None).
NoRoot == << "<None>" >>

\* What reading a file gives when open() or read() raises.
Unreadable == << "<OSError>" >>

\* The last position of s that holds the character c, or 0.
LastIndex(s, c) ==
    IF \E i \in DOMAIN s : s[i] = c
    THEN CHOOSE i \in DOMAIN s : s[i] = c /\ \A j \in (i + 1)..Len(s) : s[j] # c
    ELSE 0

\* os.path.dirname(p): p up to its last "/", without that slash unless
\* nothing else is left.
Dirname(p) ==
    LET head == SubSeq(p, 1, LastIndex(p, "/"))
    IN  IF head # << >> /\ \E i \in DOMAIN head : head[i] # "/"
        THEN SubSeq(head, 1, CHOOSE e \in DOMAIN head :
                                 /\ head[e] # "/"
                                 /\ \A j \in (e + 1)..Len(head) : head[j] = "/")
        ELSE head

\* Path(p).stem: the last component of p without its last suffix.
PathStem(p) ==
    LET name == From1(p, LastIndex(p, "/") + 1)
        dot == LastIndex(name, ".")
    IN  IF 1 < dot /\ dot < Len(name) THEN SubSeq(name, 1, dot - 1) ELSE name

RECURSIVE Split(_)
\* content.split('\n'): the pieces between the newlines, one more than there
\* are newlines, so never an empty list.
Split(content) ==
    IF \E i \in DOMAIN content : content[i] = "\n"
    THEN LET i == CHOOSE i \in DOMAIN content :
                      content[i] = "\n" /\ \A j \in 1..(i - 1) : content[j] # "\n"
         IN  << SubSeq(content, 1, i - 1) >> \o Split(From1(content, i + 1))
    ELSE << content >>

\* re.sub(r'^#+ ', '', title): a run of "#" at the start that a space
\* follows goes, with that space.
StripHeading(title) ==
    LET e == RunIn(title, 1, {"#"})
    IN  IF e > 1 /\ At(title, e) = " " THEN From1(title, e + 1) ELSE title

RECURSIVE Extend(_)
\* The loop of extract_from_file over the lines: the lists found in each
\* line (lists[k] for line k), extended one after the other.
Extend(lists) ==
    IF lists = << >> THEN << >> ELSE Head(lists) \o Extend(Tail(lists))

\* extract_from_file with the lines numbered from 0.
extract_from_file_from_zero(filepath, notes_root_arg, file) ==
    LET notes_root == IF notes_root_arg = NoRoot THEN Dirname(filepath)
                      ELSE notes_root_arg
        lines == Split(file)
        numbers == 1..Len(lines)
    IN  IF file = Unreadable
        THEN [path |-> filepath, title |-> PathStem(filepath), content |-> << >>,
              wikilinks |-> << >>, mentions |-> << >>, hashtags |-> << >>]
        ELSE [path |-> filepath,
              title |-> StripHeading(IF lines # << >> THEN lines[1]
                                     ELSE PathStem(filepath)),
              content |-> file,
              wikilinks |-> Extend([k \in numbers |->
                                       extract_wikilinks(lines[k], k - 1, notes_root)]),
              mentions |-> Extend([k \in numbers |->
                                      extract_mentions(lines[k], k - 1)]),
              hashtags |-> Extend([k \in numbers |->
                                      extract_hashtags(lines[k], k - 1)])]

\* extract_from_file(filepath, notes_root), where file is what reading the
\* file at filepath gives.
extract_from_file(filepath, notes_root_arg, file) ==
    LET notes_root == IF notes_root_arg = NoRoot THEN Dirname(filepath)
                      ELSE notes_root_arg
        lines == Split(file)
        numbers == 1..Len(lines)
    IN  IF file = Unreadable
        THEN [path |-> filepath, title |-> PathStem(filepath), content |-> << >>,
              wikilinks |-> << >>, mentions |-> << >>, hashtags |-> << >>]
        ELSE [path |-> filepath,
              title |-> StripHeading(IF lines # << >> THEN lines[1]
                                     ELSE PathStem(filepath)),
              content |-> file,
              wikilinks |-> Extend([k \in numbers |->
                                       extract_wikilinks(lines[k], k, notes_root)]),
              mentions |-> Extend([k \in numbers |->
                                      extract_mentions(lines[k], k)]),
              hashtags |-> Extend([k \in numbers |->
                                      extract_hashtags(lines[k], k)])]

RECURSIVE Texts(_, _)
\* The texts made of at most n of the given tokens.
Texts(tokens, n) ==
    IF n = 0 THEN {<< >>}
    ELSE LET shorter == Texts(tokens, n - 1)
         IN  shorter \cup {s \o t : s \in shorter, t \in tokens}

\* The lines extract_wikilinks is applied to: at most n tokens.
LinkLines(n) ==
    Texts({<<"[", "[">>, <<"]", "]">>, <<"[">>, <<"]">>, <<"|">>, <<"|", "a">>, <<"a">>, <<"/">>}, n)

\* The lines extract_mentions is applied to: at most n tokens.
MentionLines(n) ==
    Texts({<<"@">>, <<"@", "a">>, <<"1", "-", "_">>, <<".">>, <<".", "c", "o", "m">>, <<".", "c", "o">>, <<".", "o", "r", "g">>, <<".", "i", "o">>, <<".", "n", "l">>,
           <<".", "u", "k">>}, n)

\* The lines extract_hashtags is applied to: at most n tokens.
HashtagLines(n) ==
    Texts({<<"#">>, <<"#", "a">>, <<"/">>, <<"=">>, <<"1", "-", "_">>, <<"#", "g", "i", "d">>, <<"#", "b", "r", "o", "w", "s", "e">>, <<"#", "e", "d", "i", "t">>,
           <<"#", "r", "e", "s", "o", "u", "r", "c", "e">>, <<"#", "G", "i", "d">>}, n)

\* The example of the documentation: a mention, a wikilink and a hashtag on
\* line 5.
ExampleContent ==
    <<"\n", "\n", "\n", "\n", "M", "e", "e", "t", " ", "@", "a", "l", "i", "c", "e", " ", "a", "b", "o", "u", "t", " ", "[", "[", "p", "r", "o", "j", "e", "c", "t", "-", "p", "l", "a", "n", "]", "]", " ", "r", "e", " ", "#", "o", "p", "s">>

\* The contents of the files extract_from_file is applied to: at most n
\* pieces, and the example.
Contents(n) ==
    Texts({<<"\n">>, <<"#", " ">>, <<"#">>, <<"T">>, <<" ">>, <<"@", "a">>, <<"[", "[", "a", "]", "]">>}, n)
        \cup {ExampleContent}

\* The process starts with the arguments of one call of one function.
InitEntities ==
    /\ connection = FALSE
    /\ graph = EmptyGraph
    /\ progress = NoProgress
    /\ before = EmptyGraph
    /\ line = 0
    /\ sent = 0
    /\ issued = << >>
    /\ HAS_MGCLIENT = TRUE
    /\ response = NoResponse
    /\ \/ /\ pc = "extract_wikilinks"
          /\ request \in [text : LinkLines(MaxLinkTokens), line_num : {1},
                           notes_root : {<<"/", "n">>, <<"/", "r", "/">>}]
       \/ /\ pc = "extract_mentions"
          /\ request \in [text : MentionLines(MaxTokens), line_num : {1}]
       \/ /\ pc = "extract_hashtags"
          /\ request \in [text : HashtagLines(MaxTokens), line_num : {1}]
       \/ /\ pc = "extract_from_file"
          /\ request \in [filepath : {<<"/", "n", "/", "a", ".", "m", "d">>, <<"b">>},
                           notes_root : {NoRoot, <<"/", "r">>},
                           file : Contents(MaxPieces) \cup {Unreadable}]

ExtractWikilinks ==
    /\ pc = "extract_wikilinks"
    /\ response' = extract_wikilinks(request.text, request.line_num,
                                     request.notes_root)
    /\ pc' = "extract_wikilinks returned"
    /\ UNCHANGED <<connection, graph, request, progress, before, line, sent,
                   issued, HAS_MGCLIENT>>

ExtractMentions ==
    /\ pc = "extract_mentions"
    /\ response' = extract_mentions(request.text, request.line_num)
    /\ pc' = "extract_mentions returned"
    /\ UNCHANGED <<connection, graph, request, progress, before, line, sent,
                   issued, HAS_MGCLIENT>>

ExtractHashtags ==
    /\ pc = "extract_hashtags"
    /\ response' = extract_hashtags(request.text, request.line_num)
    /\ pc' = "extract_hashtags returned"
    /\ UNCHANGED <<connection, graph, request, progress, before, line, sent,
                   issued, HAS_MGCLIENT>>

\* extract_from_file without the except clause around open and read: the
\* exception leaves the function.
ExtractFromFileUncaught ==
    /\ pc = "extract_from_file"
    /\ IF request.file = Unreadable
       THEN /\ pc' = "extract_from_file raised"
            /\ UNCHANGED response
       ELSE /\ pc' = "extract_from_file returned"
            /\ response' = extract_from_file(request.filepath,
                                             request.notes_root, request.file)
    /\ UNCHANGED <<connection, graph, request, progress, before, line, sent,
                   issued, HAS_MGCLIENT>>

ExtractFromFile ==
    /\ pc = "extract_from_file"
    /\ response' = extract_from_file(request.filepath, request.notes_root,
                                     request.file)
    /\ pc' = "extract_from_file returned"
    /\ UNCHANGED <<connection, graph, request, progress, before, line, sent,
                   issued, HAS_MGCLIENT>>

NextEntities ==
    \/ ExtractWikilinks
    \/ ExtractMentions
    \/ ExtractHashtags
    \/ ExtractFromFile

SpecEntities == InitEntities /\ [][NextEntities]_vars

\* ---------------------------------------------------------------------------
\* C23
\* ---------------------------------------------------------------------------

\* The text holds, from position i to just before position e, a wikilink
\* [[x]] or [[x|y]] whose target x ends at position j: x is not empty and
\* holds neither "]" nor "|"; y is not empty and holds no "]".
WikilinkOccurs(text, i, j, e) ==
    /\ 1 <= i /\ i + 2 <= j /\ j + 2 < e /\ e <= Len(text) + 1
    /\ text[i] = "[" /\ text[i + 1] = "["
    /\ \A k \in (i + 2)..j : text[k] \notin {"]", "|"}
    /\ text[e - 2] = "]" /\ text[e - 1] = "]"
    /\ \/ e = j + 3
       \/ /\ text[j + 1] = "|"
          /\ j + 2 <= e - 3
          /\ \A k \in (j + 2)..(e - 3) : text[k] # "]"

\* The wikilinks of a text that do not lie inside another one, as triples
\* of start, end of target, end.
WikilinkOccurrences(text) ==
    LET P == 1..(Len(text) + 1)
        opens == {i \in P : At(text, i) = "[" /\ At(text, i + 1) = "["}
        ends == {j \in P : At(text, j + 1) \in {"]", "|"}}
        closes == {e \in P : At(text, e - 2) = "]" /\ At(text, e - 1) = "]"}
        all == {o \in opens \X ends \X closes :
                  WikilinkOccurs(text, o[1], o[2], o[3])}
    IN  {o \in all : ~\E q \in all : q[1] < o[1] /\ o[1] < q[3]}

\* The path of name directly under root.
Under(root, name) ==
    IF root[Len(root)] = "/" THEN root \o name ELSE root \o <<"/">> \o name

\* The records a text should give: one for each wikilink, from left to
\* right, with the given way of making the path of a target.
WikilinkRecords(text, line_num, notes_root, Path(_, _)) ==
    LET occ == WikilinkOccurrences(text)
    IN  [k \in 1..Cardinality(occ) |->
           LET o == CHOOSE o \in occ :
                        Cardinality({q \in occ : q[1] < o[1]}) = k - 1
               x == SubSeq(text, o[1] + 2, o[2])
           IN  [target |-> x, target_path |-> Path(notes_root, x \o <<".", "m", "d">>),
                line_number |-> line_num]]

\* C23: for every line and every notes root, each occurrence of [[x]] or
\* [[x|y]] (x not empty, with neither "]" nor "|") yields one wikilink
\* record with target x, the alias ignored, and a target_path that is x.md
\* under notes_root.
C23_WikilinksUnderRoot ==
    pc = "extract_wikilinks returned" =>
        response = WikilinkRecords(request.text, request.line_num,
                                   request.notes_root, Under)

\* The records are those of the wikilinks of the line, with the path that
\* os.path.join makes of each target.
C23_WikilinksJoined ==
    pc = "extract_wikilinks returned" =>
        response = WikilinkRecords(request.text, request.line_num,
                                   request.notes_root, PathJoin)

\* A wikilink whose target starts with "/" has been extracted: its path is
\* the target itself with ".md", outside notes_root.
C23_Witness ==
    /\ pc = "extract_wikilinks returned"
    /\ request.text = <<"[", "[", "/", "a", "]", "]">>
    /\ request.notes_root = <<"/", "n">>
    /\ response = << [target |-> <<"/", "a">>, target_path |-> <<"/", "a", ".", "m", "d">>,
                      line_number |-> 1] >>

\* ---------------------------------------------------------------------------
\* C24
\* ---------------------------------------------------------------------------

\* The positions of a text where a marker (the character mark) is followed
\* by a letter: where an @name or a #tag starts.
NameStarts(text, mark) ==
    {i \in DOMAIN text : text[i] = mark /\ At(text, i + 1) \in Letters}

\* The position of the last character of the name that starts after
\* position i: the name goes on as long as letters, digits, "-" or "_" come.
NameEnd(text, i) ==
    CHOOSE e \in (i + 1)..Len(text) :
        /\ \A k \in (i + 1)..e : text[k] \in NameChars
        /\ At(text, e + 1) \notin NameChars

\* The text right after position e starts with the string s.
FollowedBy(text, e, s) ==
    /\ e + Len(s) <= Len(text)
    /\ SubSeq(text, e + 1, e + Len(s)) = s

\* The records for the names that start at the given positions, from left
\* to right.
NameRecords(text, line_num, starts) ==
    [k \in 1..Cardinality(starts) |->
       LET i == CHOOSE i \in starts : Cardinality({j \in starts : j < i}) = k - 1
       IN  [name |-> SubSeq(text, i + 1, NameEnd(text, i)),
            line_number |-> line_num]]

\* C24: extract_mentions returns a record for an @name (a letter followed by
\* letters, digits, "-" or "_", matched greedily) exactly when the text right
\* after the name does not start with "@", ".com", ".org", ".io", ".co", ".nl"
\* or ".uk".
C24_MentionsButEmails ==
    pc = "extract_mentions returned" =>
        LET text == request.text
            kept == {i \in NameStarts(text, "@") :
                       \A s \in {<<"@">>, <<".", "c", "o", "m">>, <<".", "o", "r", "g">>, <<".", "i", "o">>, <<".", "c", "o">>, <<".", "n", "l">>,
                                  <<".", "u", "k">>} :
                           ~FollowedBy(text, NameEnd(text, i), s)}
        IN  response = NameRecords(text, request.line_num, kept)

\* Of three mentions the first two, each followed by "@", have been left
\* out and the last returned.
C24_Witness ==
    /\ pc = "extract_mentions returned"
    /\ request.text = <<"@", "a", "1", "-", "_", "@", "a", "@", "a">>
    /\ response = << [name |-> <<"a">>, line_number |-> 1] >>

\* ---------------------------------------------------------------------------
\* C25
\* ---------------------------------------------------------------------------

\* C25: extract_hashtags returns a record for #tag (a letter followed by
\* letters, digits, "-" or "_") exactly when the "#" is not right after "/"
\* or "=" and the whole tag is none of gid, browse, edit, resource, compared
\* with case.
C25_HashtagsButStoplist ==
    pc = "extract_hashtags returned" =>
        LET text == request.text
            kept == {i \in NameStarts(text, "#") :
                       /\ At(text, i - 1) \notin {"/", "="}
                       /\ SubSeq(text, i + 1, NameEnd(text, i)) \notin
                              {<<"g", "i", "d">>, <<"b", "r", "o", "w", "s", "e">>, <<"e", "d", "i", "t">>, <<"r", "e", "s", "o", "u", "r", "c", "e">>}}
        IN  response = NameRecords(text, request.line_num, kept)

\* Of three hashtags the one after "=" and the one on the stoplist have been
\* left out; the one that differs from a stoplist name in case has been
\* returned.
C25_Witness ==
    /\ pc = "extract_hashtags returned"
    /\ request.text = <<"=", "#", "a", "#", "e", "d", "i", "t", "#", "G", "i", "d">>
    /\ response = << [name |-> <<"G", "i", "d">>, line_number |-> 1] >>

\* ---------------------------------------------------------------------------
\* C26
\* ---------------------------------------------------------------------------

\* The first line of a content: what stands before its first newline.
FirstLine(content) ==
    SubSeq(content, 1,
           CHOOSE n \in 0..Len(content) :
               /\ \A k \in 1..n : content[k] # "\n"
               /\ At(content, n + 1) \in {"\n", ""})

\* A line without its heading marker: when it starts with one or more "#"
\* and then a space, what follows that space.
WithoutMarker(l) ==
    IF \E n \in 1..Len(l) :
           /\ \A k \in 1..n : l[k] = "#"
           /\ At(l, n + 1) = " "
    THEN From1(l, 2 + CHOOSE n \in 1..Len(l) : /\ \A k \in 1..n : l[k] = "#"
                                                /\ At(l, n + 1) = " ")
    ELSE l

\* A file that could be read has been extracted.
FileExtracted == pc = "extract_from_file returned" /\ request.file # Unreadable

\* C26: the title returned by extract_from_file is the first line of the
\* content without a leading heading marker (one or more "#" and a space),
\* and for an empty file the title is the filename stem.
C26_Title ==
    FileExtracted =>
        response.title = IF request.file = << >> THEN PathStem(request.filepath)
                         ELSE WithoutMarker(FirstLine(request.file))

\* The title is the first line without its heading marker for every file
\* that could be read, the empty one too.
C26_TitleOfFirstLine ==
    FileExtracted => response.title = WithoutMarker(FirstLine(request.file))

\* An empty file has been extracted and its title is empty, not "a".
C26_Witness ==
    /\ FileExtracted
    /\ request.filepath = <<"/", "n", "/", "a", ".", "m", "d">>
    /\ request.file = << >>
    /\ response.title = << >>

\* ---------------------------------------------------------------------------
\* C27
\* ---------------------------------------------------------------------------

\* C27: extract_from_file never raises: for every content it returns a
\* record, and for a file that cannot be opened or read it returns the given
\* path with empty content, empty lists of wikilinks, mentions and hashtags,
\* and the filename stem as title.
C27_NeverRaises ==
    "filepath" \in DOMAIN request =>
        /\ pc \in {"extract_from_file", "extract_from_file returned"}
        /\ pc = "extract_from_file returned" =>
              /\ DOMAIN response = {"path", "title", "content", "wikilinks",
                                    "mentions", "hashtags"}
              /\ response.path = request.filepath
              /\ request.file = Unreadable =>
                     response = [path |-> request.filepath,
                                 title |-> PathStem(request.filepath),
                                 content |-> << >>, wikilinks |-> << >>,
                                 mentions |-> << >>, hashtags |-> << >>]

\* A file that cannot be read has been extracted: the result is empty and
\* its title is the stem of the path.
C27_Witness ==
    /\ pc = "extract_from_file returned"
    /\ request.file = Unreadable
    /\ request.filepath = <<"/", "n", "/", "a", ".", "m", "d">>
    /\ response.title = <<"a">>
    /\ response.content = << >>

\* ---------------------------------------------------------------------------
\* C28
\* ---------------------------------------------------------------------------

\* The positions of the newlines of a content, with 0 before the first and
\* one past the end after the last.
Breaks(content) ==
    {0, Len(content) + 1} \cup {i \in DOMAIN content : content[i] = "\n"}

\* Line k of a content, counted from 1: what stands between break k and
\* break k + 1.
LineAt(content, k) ==
    LET B == Breaks(content)
        from == CHOOSE b \in B : Cardinality({a \in B : a < b}) = k - 1
        to == CHOOSE b \in B : Cardinality({a \in B : a < b}) = k
    IN  SubSeq(content, from + 1, to - 1)

\* The mentions a line should give with the given line number.
MentionRecords(text, n) ==
    NameRecords(text, n,
                {i \in NameStarts(text, "@") :
                   \A s \in {<<"@">>, <<".", "c", "o", "m">>, <<".", "o", "r", "g">>, <<".", "i", "o">>, <<".", "c", "o">>, <<".", "n", "l">>, <<".", "u", "k">>} :
                       ~FollowedBy(text, NameEnd(text, i), s)})

\* The hashtags a line should give with the given line number.
HashtagRecords(text, n) ==
    NameRecords(text, n,
                {i \in NameStarts(text, "#") :
                   /\ At(text, i - 1) \notin {"/", "="}
                   /\ SubSeq(text, i + 1, NameEnd(text, i)) \notin
                          {<<"g", "i", "d">>, <<"b", "r", "o", "w", "s", "e">>, <<"e", "d", "i", "t">>, <<"r", "e", "s", "o", "u", "r", "c", "e">>}})

RECURSIVE UpToLine(_, _)
\* The records of lines 1 to k, line by line, where perLine[n] are those of
\* line n.
UpToLine(perLine, k) ==
    IF k = 0 THEN << >> ELSE UpToLine(perLine, k - 1) \o perLine[k]

\* C28: extract_from_file returns one record per match, in line order and
\* from left to right within a line, each with the 1-based number of its
\* line in the content split at newlines; repeated matches of one target, on
\* the same line or on different lines, are all kept. Line 5 of the example
\* gives one wikilink to /n/project-plan.md, the mention alice and the
\* hashtag ops, each with line_number 5.
C28_RecordPerMatch ==
    FileExtracted =>
        LET content == request.file
            n == Cardinality(Breaks(content)) - 1
            root == IF request.notes_root = NoRoot THEN Dirname(request.filepath)
                    ELSE request.notes_root
        IN  /\ response.wikilinks =
                   UpToLine([k \in 1..n |-> WikilinkRecords(LineAt(content, k), k,
                                                            root, PathJoin)], n)
            /\ response.mentions =
                   UpToLine([k \in 1..n |-> MentionRecords(LineAt(content, k), k)], n)
            /\ response.hashtags =
                   UpToLine([k \in 1..n |-> HashtagRecords(LineAt(content, k), k)], n)
            /\ (content = ExampleContent /\ root = <<"/", "n">>) =>
                   /\ response.wikilinks =
                          << [target |-> <<"p", "r", "o", "j", "e", "c", "t", "-", "p", "l", "a", "n">>,
                              target_path |-> <<"/", "n", "/", "p", "r", "o", "j", "e", "c", "t", "-", "p", "l", "a", "n", ".", "m", "d">>,
                              line_number |-> 5] >>
                   /\ response.mentions = << [name |-> <<"a", "l", "i", "c", "e">>, line_number |-> 5] >>
                   /\ response.hashtags = << [name |-> <<"o", "p", "s">>, line_number |-> 5] >>

\* A file with the same wikilink once on line 1 and twice on line 2 has been
\* extracted: three records, in that order.
C28_Witness ==
    /\ FileExtracted
    /\ request.file = <<"[", "[", "a", "]", "]", "\n", "[", "[", "a", "]", "]", "[", "[", "a", "]", "]">>
    /\ request.notes_root = <<"/", "r">>
    /\ response.wikilinks =
           << [target |-> <<"a">>, target_path |-> <<"/", "r", "/", "a", ".", "m", "d">>, line_number |-> 1],
              [target |-> <<"a">>, target_path |-> <<"/", "r", "/", "a", ".", "m", "d">>, line_number |-> 2],
              [target |-> <<"a">>, target_path |-> <<"/", "r", "/", "a", ".", "m", "d">>, line_number |-> 2] >>

\* The example of the documentation has been extracted with root /n.
C28_Example ==
    /\ FileExtracted
    /\ request.file = ExampleContent
    /\ request.filepath = <<"/", "n", "/", "a", ".", "m", "d">>
    /\ request.notes_root = NoRoot
    /\ Len(response.wikilinks) = 1

\* ---------------------------------------------------------------------------
\* The tools get_related and get_note_context of the server, over a database
\* that earlier update_note requests have filled.
\* ---------------------------------------------------------------------------

PC == <<"/", "n", "/", "c", ".", "m", "d">>

\* A sequence that holds each element of the set S once.
SetToSeq(S) ==
    CHOOSE s \in [1..Cardinality(S) -> S] : \A i, j \in DOMAIN s : i # j => s[i] # s[j]

\* The update_note requests that filled the database: for each of three
\* notes none, or one with some of the wikilinks, mentions and hashtags
\* given for its path.
FilledBy(path, wikilinks, mentions, hashtags) ==
    {<< >>}
    \cup {<< [path |-> path, title |-> "T1", content |-> "c1",
              wikilinks |-> SetToSeq(w), mentions |-> SetToSeq(m),
              hashtags |-> SetToSeq(h)] >> :
             w \in SUBSET wikilinks, m \in SUBSET mentions, h \in SUBSET hashtags}

RECURSIVE Filled(_, _)
\* The graph after update_note has run for each note of a sequence.
Filled(g, notes) ==
    IF notes = << >> THEN g
    ELSE LET stmts == UpdateNoteStatements(Head(notes), "t1")
         IN  Filled(Run(g, stmts, Len(stmts)), Tail(notes))

\* What the database may hold when a tool is called: g, filled.
ToolGraphs(g) ==
    {Filled(g, a \o b \o c) :
        a \in FilledBy(PA, {[target_path |-> PBob, line_number |-> 1],
                            [target_path |-> PBob, line_number |-> 2]},
                       {[name |-> Bob, line_number |-> 1],
                        [name |-> Bob, line_number |-> 2]},
                       {[name |-> TagX, line_number |-> 1]}),
        b \in FilledBy(PBob, {[target_path |-> PA, line_number |-> 1]},
                       {[name |-> Bob, line_number |-> 1]},
                       {[name |-> TagX, line_number |-> 1]}),
        c \in FilledBy(PC, {}, {[name |-> Bob, line_number |-> 1]},
                       {[name |-> TagX, line_number |-> 1]})}

\* The calls of the two tools: for a path, and without the argument.
NoteToolCalls ==
    {[name |-> n, arguments |-> a] :
        n \in {"get_related", "get_note_context"},
        a \in {NoArguments} \cup [note_path : {PA, PBob}]}

\* The server starts over a filled database.
InitTools ==
    /\ connection = FALSE
    /\ graph \in ToolGraphs(EmptyGraph)
    /\ pc = "main"
    /\ request = NoRequest
    /\ response = NoResponse
    /\ progress = NoLocals
    /\ before = EmptyGraph
    /\ line = "none"
    /\ sent = 0
    /\ issued = FALSE
    /\ HAS_MGCLIENT \in BOOLEAN

\* call_tool is entered with the name of one of the two tools.
CallNoteTool ==
    /\ pc = "serving"
    /\ request' \in NoteToolCalls
    /\ pc' = "call_tool"
    /\ progress' = NoLocals
    /\ before' = graph
    /\ sent' = 0
    /\ issued' = FALSE
    /\ UNCHANGED <<connection, graph, response, line, HAS_MGCLIENT>>

\* call_tool, get_related: arguments["note_path"] raises KeyError, which the
\* except clause of call_tool turns into a text; otherwise get_related calls
\* query.
GetRelated ==
    /\ pc = "call_tool"
    /\ request.name = "get_related"
    /\ IF "note_path" \notin DOMAIN request.arguments
       THEN /\ response' = Text("Error: " \o "'note_path'")
            /\ sent' = sent + 1
            /\ pc' = "returned"
            /\ UNCHANGED progress
       ELSE /\ progress' = EnterQuery(progress)
            /\ pc' = "is_connected"
            /\ UNCHANGED <<response, sent>>
    /\ UNCHANGED <<connection, graph, request, before, line, issued, HAS_MGCLIENT>>

\* call_tool, get_note_context: the same for its own argument.
GetNoteContext ==
    /\ pc = "call_tool"
    /\ request.name = "get_note_context"
    /\ IF "note_path" \notin DOMAIN request.arguments
       THEN /\ response' = Text("Error: " \o "'note_path'")
            /\ sent' = sent + 1
            /\ pc' = "returned"
            /\ UNCHANGED progress
       ELSE /\ progress' = EnterQuery(progress)
            /\ pc' = "is_connected"
            /\ UNCHANGED <<response, sent>>
    /\ UNCHANGED <<connection, graph, request, before, line, issued, HAS_MGCLIENT>>

\* get_related after query: one dict for each row.
get_related(results) ==
    [i \in DOMAIN results |->
        [path |-> results[i][1], title |-> results[i][2],
         shared_count |-> results[i][3], connections |-> results[i][4]]]

\* The elements of a bag for which Keep holds.
BagFilter(b, Keep(_)) == [e \in {e \in BagToSet(b) : Keep(e)} |-> b[e]]

\* get_note_context after query: the not-found result for no row, else a
\* dict of the first row without the links whose path is null or empty and
\* without the names that are empty.
get_note_context(results) ==
    LET row == results[1]
        HasPath(l) == l.path \notin {NullKey, Empty}
        NotEmpty(t) == t # Empty
    IN  IF results = << >> THEN [error |-> "Note not found"]
        ELSE [title |-> row[1], path |-> row[2],
              outgoing_links |-> BagFilter(row[3], HasPath),
              tags |-> BagFilter(row[4], NotEmpty),
              mentions |-> BagFilter(row[5], NotEmpty),
              backlinks |-> BagFilter(row[6], HasPath)]

\* call_tool, get_related after query: the result as JSON, or the exception
\* that left query as an error text.
GetRelatedDone ==
    /\ pc = "query_done"
    /\ request.name = "get_related"
    /\ response' = IF progress.error = NoError
                   THEN Json(get_related(progress.rows))
                   ELSE Text("Error: " \o progress.error)
    /\ sent' = sent + 1
    /\ pc' = "returned"
    /\ UNCHANGED <<connection, graph, request, progress, before, line, issued,
                   HAS_MGCLIENT>>

\* call_tool, get_note_context after query: the same.
GetNoteContextDone ==
    /\ pc = "query_done"
    /\ request.name = "get_note_context"
    /\ response' = IF progress.error = NoError
                   THEN Json(get_note_context(progress.rows))
                   ELSE Text("Error: " \o progress.error)
    /\ sent' = sent + 1
    /\ pc' = "returned"
    /\ UNCHANGED <<connection, graph, request, progress, before, line, issued,
                   HAS_MGCLIENT>>

\* The steps of the server under calls of the two tools.
NextTools ==
    \/ Main
    \/ CallNoteTool
    \/ GetRelated
    \/ GetNoteContext
    \/ IsConnected
    \/ ServerConnect
    \/ ServerExecute
    \/ GetRelatedDone
    \/ GetNoteContextDone
    \/ ToolReturned

SpecTools == InitTools /\ [][NextTools]_vars

\* ---------------------------------------------------------------------------
\* C29
\* ---------------------------------------------------------------------------

\* A tool has returned the result of its statement, which did not raise.
Answered(name) ==
    /\ pc = "returned"
    /\ request.name = name
    /\ "note_path" \in DOMAIN request.arguments
    /\ progress.error = NoError

\* The Tag and Person nodes that the notes at the paths p and q share, each
\* as "<Kind>: <name>".
SharedNodes(g, p, q) ==
    {<<"T", "a", "g", ":", " ">> \o t.name :
        t \in {t \in BagToSet(g.tags) :
                 /\ \E e \in BagToSet(g.has_tag) : e.src = p /\ e.dst = t.name
                 /\ \E e \in BagToSet(g.has_tag) : e.src = q /\ e.dst = t.name}}
    \cup
    {<<"P", "e", "r", "s", "o", "n", ":", " ">> \o n.name :
        n \in {n \in BagToSet(g.persons) :
                 /\ \E e \in BagToSet(g.mentions) : e.src = p /\ e.dst = n.name
                 /\ \E e \in BagToSet(g.mentions) : e.src = q /\ e.dst = n.name}}

\* The pairs of a relationship from the note at p and one from the note at
\* q that end at the same Tag or Person node.
SharedPairs(g, p, q) ==
    LET E == BagToSet(g.has_tag) \cup BagToSet(g.mentions)
    IN  {pair \in E \X E :
           /\ pair[1].src = p /\ pair[2].src = q
           /\ pair[1].dst = pair[2].dst
           /\ BagIn(pair[1], g.has_tag) <=> BagIn(pair[2], g.has_tag)}

\* What get_related returns, with shared_count as given by Counted.
RelatedResult(Counted(_, _, _)) ==
    Answered("get_related") =>
        LET path == request.arguments.note_path
            results == response.json
        IN  /\ \A i \in DOMAIN results :
                  /\ results[i].path # path
                  /\ NotesAt(graph, results[i].path) # {}
                  /\ SharedNodes(graph, path, results[i].path) # {}
                  /\ results[i].shared_count =
                         Cardinality(Counted(graph, path, results[i].path))
                  /\ results[i].connections =
                         SharedNodes(graph, path, results[i].path)
            /\ \A i, j \in DOMAIN results :
                  i < j => results[i].shared_count >= results[j].shared_count
            /\ Len(results) <= 20

\* C29: get_related(path) returns only notes other than path that share at
\* least one Tag or Person node with it, each with shared_count equal to the
\* number of Tag and Person nodes it shares with the note and the list of
\* those nodes as "<Kind>: <name>", ordered by shared_count descending, at
\* most 20 entries.
C29_RelatedBySharedNodes == RelatedResult(SharedNodes)

\* The same with shared_count the number of pairs of relationships that lead
\* from the two notes to a shared node.
C29_RelatedBySharedPairs == RelatedResult(SharedPairs)

\* get_related has answered for a note that shares one Person with another
\* note that mentions that person on two lines: shared_count is 2.
C29_Witness ==
    /\ Answered("get_related")
    /\ request.arguments.note_path = PBob
    /\ response.json = << [path |-> PA, title |-> "T1", shared_count |-> 2,
                           connections |-> {<<"P", "e", "r", "s", "o", "n", ":", " ", "b", "o", "b">>}] >>

\* ---------------------------------------------------------------------------
\* C30
\* ---------------------------------------------------------------------------

\* A list, held as a bag, that holds each element of the set S once.
Once(S) == SetToBag(S)

\* The path and title of the notes at the given paths.
PathAndTitle(g, paths) ==
    {[path |-> n.path, title |-> TitleOf(n)] :
        n \in {n \in BagToSet(g.notes) : n.path \in paths}}

\* C30: get_note_context(path) returns {error: "Note not found"} exactly when
\* no Note with that path exists; otherwise it returns one record with the
\* title and path of the note and its outgoing links, tags, mentions and
\* backlinks, each neighbour once even when several relationships with
\* different line numbers join the same pair, and an empty list, with no
\* null entry, for a kind without neighbours.
C30_ContextOrNotFound ==
    Answered("get_note_context") =>
        LET path == request.arguments.note_path
            result == response.json
            L == BagToSet(graph.links_to)
        IN  /\ result = [error |-> "Note not found"] <=> NotesAt(graph, path) = {}
            /\ NotesAt(graph, path) # {} =>
                  /\ DOMAIN result = {"title", "path", "outgoing_links", "tags",
                                       "mentions", "backlinks"}
                  /\ \E n \in NotesAt(graph, path) : result.title = TitleOf(n)
                  /\ result.path = path
                  /\ result.outgoing_links =
                         Once(PathAndTitle(graph, {e.dst : e \in {e \in L : e.src = path}}))
                  /\ result.tags =
                         Once({e.dst : e \in {e \in BagToSet(graph.has_tag) :
                                                 e.src = path}})
                  /\ result.mentions =
                         Once({e.dst : e \in {e \in BagToSet(graph.mentions) :
                                                 e.src = path}})
                  /\ result.backlinks =
                         Once(PathAndTitle(graph, {e.src : e \in {e \in L : e.dst = path}}))

\* get_note_context has answered for a note with two links, on different
\* lines, to one note and with no tag: the note is listed once and the tags
\* are an empty list.
C30_Witness ==
    /\ Answered("get_note_context")
    /\ request.arguments.note_path = PA
    /\ Cardinality({e \in BagToSet(graph.links_to) : e.src = PA /\ e.dst = PBob}) = 2
    /\ response.json.outgoing_links = Once({[path |-> PBob, title |-> "T1"]})
    /\ response.json.tags = EmptyBag
    /\ response.json.mentions = Once({Bob})

\* get_note_context has answered for a path at which no note is.
C30_NotFound ==
    /\ Answered("get_note_context")
    /\ graph.notes # EmptyBag
    /\ response.json = [error |-> "Note not found"]

\* ---------------------------------------------------------------------------
\* The tool get_backlinks of the server, over a database that update_note and
\* delete_note requests of the bridge have written. In these sessions line
\* holds the requests the bridge has handled, in their order.
\* ---------------------------------------------------------------------------

\* Largest number of requests the bridge has handled before the tool is
\* called.
MaxOps == 3

\* The same with the rows taken from the last to the first.
get_backlinks_reversed(results) ==
    [i \in DOMAIN results |->
        LET r == results[Len(results) + 1 - i]
        IN  [path |-> r[1], title |-> r[2], line |-> r[3]]]

\* get_backlinks after query: one dict for each row.
get_backlinks(results) ==
    [i \in DOMAIN results |->
        [path |-> results[i][1], title |-> results[i][2], line |-> results[i][3]]]

\* The wikilinks of the requests: none, or to PBob on lines 2, 1 and 2 again.
BacklinkLists ==
    {<< >>,
     << [target_path |-> PBob, line_number |-> 2],
        [target_path |-> PBob, line_number |-> 1],
        [target_path |-> PBob, line_number |-> 2] >>}

\* The requests the bridge has handled: update_note of PA under two titles
\* and of PBob, delete_note of either.
BacklinkRequests ==
    {[action |-> "update_note",
      params |-> [path |-> n.path, title |-> n.title, content |-> "c1",
                  wikilinks |-> w, mentions |-> << >>, hashtags |-> << >>]] :
        n \in {[path |-> PA, title |-> "T1"], [path |-> PA, title |-> "T2"],
               [path |-> PBob, title |-> "T1"]},
        w \in BacklinkLists}
    \cup {[action |-> "delete_note", params |-> [path |-> p]] : p \in Paths}

RECURSIVE AfterRequests(_, _)
\* The graph after the bridge has handled each request with success.
AfterRequests(g, requests) ==
    IF requests = << >> THEN g
    ELSE LET r == Head(requests)
             stmts == IF r.action = "update_note"
                      THEN UpdateNoteStatements(r.params, "t1")
                      ELSE DeleteNoteStatements(r.params.path)
         IN  AfterRequests(Run(g, stmts, Len(stmts)), Tail(requests))

\* The calls of get_backlinks: for a path, and without the argument.
BacklinkCalls ==
    {[name |-> "get_backlinks", arguments |-> a] :
        a \in {NoArguments} \cup [note_path : Paths]}

\* The server starts over the database the bridge has written.
InitBacklinks ==
    /\ connection = FALSE
    /\ line \in SeqsUpTo(BacklinkRequests, MaxOps)
    /\ graph = AfterRequests(EmptyGraph, line)
    /\ pc = "main"
    /\ request = NoRequest
    /\ response = NoResponse
    /\ progress = NoLocals
    /\ before = EmptyGraph
    /\ sent = 0
    /\ issued = FALSE
    /\ HAS_MGCLIENT \in BOOLEAN

\* call_tool is entered with the name get_backlinks.
CallGetBacklinks ==
    /\ pc = "serving"
    /\ request' \in BacklinkCalls
    /\ pc' = "call_tool"
    /\ progress' = NoLocals
    /\ before' = graph
    /\ sent' = 0
    /\ issued' = FALSE
    /\ UNCHANGED <<connection, graph, response, line, HAS_MGCLIENT>>

\* call_tool, get_backlinks: arguments["note_path"] raises KeyError, which
\* the except clause of call_tool turns into a text; otherwise get_backlinks
\* calls query.
GetBacklinks ==
    /\ pc = "call_tool"
    /\ request.name = "get_backlinks"
    /\ IF "note_path" \notin DOMAIN request.arguments
       THEN /\ response' = Text("Error: " \o "'note_path'")
            /\ sent' = sent + 1
            /\ pc' = "returned"
            /\ UNCHANGED progress
       ELSE /\ progress' = EnterQuery(progress)
            /\ pc' = "is_connected"
            /\ UNCHANGED <<response, sent>>
    /\ UNCHANGED <<connection, graph, request, before, line, issued, HAS_MGCLIENT>>

\* call_tool, get_backlinks after query: the result as JSON, or the
\* exception that left query as an error text.
GetBacklinksDone ==
    /\ pc = "query_done"
    /\ request.name = "get_backlinks"
    /\ response' = IF progress.error = NoError
                   THEN Json(get_backlinks(progress.rows))
                   ELSE Text("Error: " \o progress.error)
    /\ sent' = sent + 1
    /\ pc' = "returned"
    /\ UNCHANGED <<connection, graph, request, progress, before, line, issued,
                   HAS_MGCLIENT>>

\* The steps of the server under calls of get_backlinks.
NextBacklinks ==
    \/ Main
    \/ CallGetBacklinks
    \/ GetBacklinks
    \/ IsConnected
    \/ ServerConnect
    \/ ServerExecute
    \/ GetBacklinksDone
    \/ ToolReturned

SpecBacklinks == InitBacklinks /\ [][NextBacklinks]_vars

\* ---------------------------------------------------------------------------
\* C31
\* ---------------------------------------------------------------------------

\* The index of the last request of the history for the path, 0 if none.
LastFor(history, path) ==
    LET K == {k \in DOMAIN history : history[k].params.path = path}
    IN  IF K = {} THEN 0 ELSE CHOOSE k \in K : \A j \in K : j <= k

\* The entries of get_backlinks(T) are those of the LINKS_TO relationships
\* into Note(T), one each, in the order of the source titles.
EntryPerEdge(result, g, T) ==
    /\ \A e \in To(g.links_to, T) :
          \E n \in NotesAt(g, e.src) :
             Cardinality({i \in DOMAIN result :
                             result[i] = [path |-> e.src, title |-> TitleOf(n),
                                          line |-> e.line_number]}) = 1
    /\ Len(result) = Cardinality(To(g.links_to, T))
    /\ \A i, j \in DOMAIN result :
          i < j => TitleRank(result[i].title) <= TitleRank(result[j].title)

\* The entries of the source S in get_backlinks(T) after the history: none
\* when the last request for S is not an update_note; else, when Linked
\* holds of the place of that request, one for each distinct line on which
\* it links to T.
EntriesOfLastSync(result, history, T, S, Linked(_)) ==
    LET k == LastFor(history, S)
        from == {i \in DOMAIN result : result[i].path = S}
    IN  IF k = 0 \/ history[k].action # "update_note"
        THEN from = {}
        ELSE Linked(k) =>
               LET lines == {w.line_number :
                               w \in {w \in Range(history[k].params.wikilinks) :
                                        w.target_path = T}}
               IN  /\ {result[i].line : i \in from} = lines
                   /\ Cardinality(from) = Cardinality(lines)

\* C31 as stated: after any sequence of syncs and deletes, get_backlinks(T)
\* returns exactly one entry (source path, source title, line) per LINKS_TO
\* edge into Note(T), ordered by source title; a source S appears once per
\* distinct line on which its last sync linked to T, and no entry from S
\* remains after S is resynced without the link or deleted.
C31_BacklinksOfLastSync ==
    Answered("get_backlinks") =>
        LET T == request.arguments.note_path
            Always(k) == TRUE
        IN  /\ EntryPerEdge(response.json, graph, T)
            /\ \A S \in Paths :
                  EntriesOfLastSync(response.json, line, T, S, Always)

\* C31, amended: the same, where a source S appears once per distinct line
\* on which its last sync linked to T provided that no delete_note of T came
\* after that sync; after such a delete S has no entry, also when T has been
\* synced again.
C31_BacklinksUntilTargetDeleted ==
    Answered("get_backlinks") =>
        LET T == request.arguments.note_path
            deleted == {k \in DOMAIN line : line[k] = [action |-> "delete_note",
                                                        params |-> [path |-> T]]}
            NotDeletedSince(k) == \A d \in deleted : d < k
        IN  /\ EntryPerEdge(response.json, graph, T)
            /\ \A S \in Paths :
                  /\ EntriesOfLastSync(response.json, line, T, S, NotDeletedSince)
                  /\ (\E d \in deleted : d > LastFor(line, S)) =>
                        \A i \in DOMAIN response.json : response.json[i].path # S

\* PA, under the title T2, was synced with links to PBob on lines 2, 1 and 2,
\* then PBob with the same links, then PA again without a link:
\* get_backlinks(PBob) gives the two entries of PBob.
C31_Witness ==
    /\ Answered("get_backlinks")
    /\ request.arguments.note_path = PBob
    /\ Len(line) = 3
    /\ \A k \in 1..3 : line[k].action = "update_note"
    /\ line[1].params.path = PA /\ line[1].params.wikilinks # << >>
    /\ line[2].params.path = PBob
    /\ line[3].params.path = PA /\ line[3].params.wikilinks = << >>
    /\ {response.json[i] : i \in DOMAIN response.json}
          = {[path |-> PBob, title |-> "T1", line |-> 1],
             [path |-> PBob, title |-> "T1", line |-> 2]}
    /\ Len(response.json) = 2

\* PBob, then PA under the title T2 were synced with the links:
\* get_backlinks(PBob) gives the entries of PBob before those of PA.
C31_Ordered ==
    /\ Answered("get_backlinks")
    /\ request.arguments.note_path = PBob
    /\ Len(response.json) = 4
    /\ response.json[1].path = PBob /\ response.json[2].path = PBob
    /\ response.json[3] = [path |-> PA, title |-> "T2", line |-> 2]
    /\ response.json[4] = [path |-> PA, title |-> "T2", line |-> 1]

\* ---------------------------------------------------------------------------
\* The tools find_by_tag and find_by_mention of the server.
\* ---------------------------------------------------------------------------

\* Largest number of pieces (a marker or a name) in the argument of a call.
MaxMarks == 3

\* str.lstrip(chars) without the strip.
LstripNothing(s, chars) == s

RECURSIVE Lstrip(_, _)
\* str.lstrip(chars): s without its leading characters that are in chars.
Lstrip(s, chars) ==
    IF s # << >> /\ Head(s) \in chars THEN Lstrip(Tail(s), chars) ELSE s

\* The arguments of the calls: at most n pieces, each "#", "@", x or bob.
FindArguments(n) == Texts({<<"#">>, <<"@">>, TagX, Bob}, n)

\* The calls of the two tools: for an argument, and without it.
FindCalls ==
    {[name |-> "find_by_tag", arguments |-> a] :
        a \in {NoArguments} \cup [tag : FindArguments(MaxMarks)]}
    \cup {[name |-> "find_by_mention", arguments |-> a] :
             a \in {NoArguments} \cup [person : FindArguments(MaxMarks)]}

\* What the database holds: nothing, or PA with the tag x on lines 2 and 1
\* and a mention of bob, and PBob with the tag xx and mentions of bob and
\* bobbob.
FindGraphs(g) ==
    {g,
     AfterRequests(g,
        << [action |-> "update_note",
            params |-> [path |-> PA, title |-> "T2", content |-> "c1",
                        wikilinks |-> << >>,
                        mentions |-> << [name |-> Bob, line_number |-> 1] >>,
                        hashtags |-> << [name |-> TagX, line_number |-> 2],
                                        [name |-> TagX, line_number |-> 1] >>]],
           [action |-> "update_note",
            params |-> [path |-> PBob, title |-> "T1", content |-> "c1",
                        wikilinks |-> << >>,
                        mentions |-> << [name |-> Bob, line_number |-> 3],
                                        [name |-> Bob \o Bob, line_number |-> 1] >>,
                        hashtags |-> << [name |-> TagX \o TagX,
                                         line_number |-> 1] >>]] >>)}

\* The server starts over the database.
InitFind ==
    /\ connection = FALSE
    /\ graph \in FindGraphs(EmptyGraph)
    /\ pc = "main"
    /\ request = NoRequest
    /\ response = NoResponse
    /\ progress = NoLocals
    /\ before = EmptyGraph
    /\ line = "none"
    /\ sent = 0
    /\ issued = FALSE
    /\ HAS_MGCLIENT \in BOOLEAN

\* call_tool is entered with the name of one of the two tools.
CallFind ==
    /\ pc = "serving"
    /\ request' \in FindCalls
    /\ pc' = "call_tool"
    /\ progress' = NoLocals
    /\ before' = graph
    /\ sent' = 0
    /\ issued' = FALSE
    /\ UNCHANGED <<connection, graph, response, line, HAS_MGCLIENT>>

\* call_tool, find_by_tag: arguments["tag"] raises KeyError, which the except
\* clause of call_tool turns into a text; otherwise find_by_tag strips the
\* tag and calls query with it.
FindByTag ==
    /\ pc = "call_tool"
    /\ request.name = "find_by_tag"
    /\ IF "tag" \notin DOMAIN request.arguments
       THEN /\ response' = Text("Error: " \o "'tag'")
            /\ sent' = sent + 1
            /\ pc' = "returned"
            /\ UNCHANGED progress
       ELSE /\ progress' = [EnterQuery(progress) EXCEPT
                              !.params = [tag |-> Lstrip(request.arguments.tag, {"#"})]]
            /\ pc' = "is_connected"
            /\ UNCHANGED <<response, sent>>
    /\ UNCHANGED <<connection, graph, request, before, line, issued, HAS_MGCLIENT>>

\* call_tool, find_by_mention: the same with arguments["person"].
FindByMention ==
    /\ pc = "call_tool"
    /\ request.name = "find_by_mention"
    /\ IF "person" \notin DOMAIN request.arguments
       THEN /\ response' = Text("Error: " \o "'person'")
            /\ sent' = sent + 1
            /\ pc' = "returned"
            /\ UNCHANGED progress
       ELSE /\ progress' = [EnterQuery(progress) EXCEPT
                              !.params = [person |-> Lstrip(request.arguments.person, {"@"})]]
            /\ pc' = "is_connected"
            /\ UNCHANGED <<response, sent>>
    /\ UNCHANGED <<connection, graph, request, before, line, issued, HAS_MGCLIENT>>

\* find_by_tag and find_by_mention after query: one dict for each row.
find_by(results) ==
    [i \in DOMAIN results |->
        [path |-> results[i][1], title |-> results[i][2], line |-> results[i][3]]]

\* call_tool, find_by_tag after query: the result as JSON, or the exception
\* that left query as an error text.
FindByTagDone ==
    /\ pc = "query_done"
    /\ request.name = "find_by_tag"
    /\ response' = IF progress.error = NoError
                   THEN Json(find_by(progress.rows))
                   ELSE Text("Error: " \o progress.error)
    /\ sent' = sent + 1
    /\ pc' = "returned"
    /\ UNCHANGED <<connection, graph, request, progress, before, line, issued,
                   HAS_MGCLIENT>>

\* call_tool, find_by_mention after query: the same.
FindByMentionDone ==
    /\ pc = "query_done"
    /\ request.name = "find_by_mention"
    /\ response' = IF progress.error = NoError
                   THEN Json(find_by(progress.rows))
                   ELSE Text("Error: " \o progress.error)
    /\ sent' = sent + 1
    /\ pc' = "returned"
    /\ UNCHANGED <<connection, graph, request, progress, before, line, issued,
                   HAS_MGCLIENT>>

\* The steps of the server under calls of the two tools.
NextFind ==
    \/ Main
    \/ CallFind
    \/ FindByTag
    \/ FindByMention
    \/ IsConnected
    \/ ServerConnect
    \/ ServerExecute
    \/ FindByTagDone
    \/ FindByMentionDone
    \/ ToolReturned

SpecFind == InitFind /\ [][NextFind]_vars

\* ---------------------------------------------------------------------------
\* C32
\* ---------------------------------------------------------------------------

\* The tool has entered query with the argument a under the key.
Looking(name, key) ==
    /\ request # NoRequest
    /\ request.name = name
    /\ key \in DOMAIN request.arguments
    /\ pc \in {"is_connected", "connect", "execute", "query_done", "returned"}

\* The lookup issued for the argument a with the marker: by the name t when
\* a is t or the marker and t, for a t that does not start with the marker.
MarkerIgnored(a, mark, key, rows) ==
    /\ \A t \in FindArguments(MaxMarks) :
          (t = << >> \/ Head(t) # mark) /\ a \in {t, << mark >> \o t} =>
              /\ progress.params = [x \in {key} |-> t]
              /\ pc = "returned" /\ progress.error = NoError =>
                    /\ progress.rows \in rows[t]
                    /\ response = Json(find_by(progress.rows))
    /\ (a = << >> \/ Head(a) # mark) => progress.params = [x \in {key} |-> a]

\* C32: find_by_tag and find_by_mention ignore a leading marker: for every
\* name t that does not start with '#', find_by_tag("#" + t) issues the same
\* exact-match lookup as find_by_tag(t), and for every name p that does not
\* start with '@', find_by_mention("@" + p) the same as find_by_mention(p); a
\* name without a marker is passed through unchanged.
C32_LeadingMarkerIgnored ==
    /\ Looking("find_by_tag", "tag") =>
          MarkerIgnored(request.arguments.tag, "#", "tag",
                        [t \in FindArguments(MaxMarks) |-> TagRows(graph, t)])
    /\ Looking("find_by_mention", "person") =>
          MarkerIgnored(request.arguments.person, "@", "person",
                        [t \in FindArguments(MaxMarks) |-> MentionRows(graph, t)])

\* find_by_tag("#x") has returned what find_by_tag("x") returns: PA on lines
\* 1 and 2, and not PBob, whose tag is xx.
C32_Witness ==
    /\ Looking("find_by_tag", "tag")
    /\ pc = "returned" /\ progress.error = NoError
    /\ request.arguments.tag = <<"#", "x">>
    /\ progress.params = [tag |-> TagX]
    /\ Len(response.json) = 2
    /\ \A i \in 1..2 : response.json[i].path = PA

\* find_by_mention("@bob") has returned the notes that mention bob: PBob,
\* whose title comes first, and PA.
C32_MentionWitness ==
    /\ Looking("find_by_mention", "person")
    /\ pc = "returned" /\ progress.error = NoError
    /\ request.arguments.person = <<"@", "b", "o", "b">>
    /\ response.json = << [path |-> PBob, title |-> "T1", line |-> 3],
                          [path |-> PA, title |-> "T2", line |-> 1] >>

\* ---------------------------------------------------------------------------
\* The tool find_journals_by_date of the server.
\* ---------------------------------------------------------------------------

\* Largest number of parts (a year, a month or a day) in a date of a call.
MaxDateParts == 2

\* The dates of the calls: at most n parts.
Dates(n) == Texts({<<"2", "0", "2", "5">>, <<"-", "0", "1">>, <<"-", "0", "2">>, <<"-", "1", "5">>}, n)

\* The calls of the tool: with both dates, without end_date and without
\* start_date.
JournalCalls ==
    {[name |-> "find_journals_by_date", arguments |-> a] :
        a \in {NoArguments} \cup [start_date : Dates(MaxDateParts)]
                \cup [start_date : Dates(MaxDateParts),
                      end_date : Dates(MaxDateParts)]}

\* The paths of the notes of the database.
JournalPaths ==
    << <<"/", "j", "o", "u", "r", "n", "a", "l", "/", "2", "0", "2", "5", "-", "0", "1", "-", "1", "5", ".", "m", "d">>, <<"/", "n", "/", "2", "0", "2", "5", "-", "0", "1", "-", "1", "5", ".", "m", "d">>, <<"/", "n", "/", "2", "0", "2", "5", "-", "0", "1", " ", "x", ".", "m", "d">>,
       <<"/", "j", "o", "u", "r", "n", "a", "l", "/", "2", "0", "2", "5", "-", "0", "1", ".", "m", "d">>, <<"/", "n", "/", "2", "0", "2", "5", "-", "0", "1", "z", ".", "m", "d">>, <<"/", "n", "/", "2", "0", "2", "5", "-", "0", "2", "-", "0", "1", ".", "m", "d">>,
       <<"/", "n", "/", "2", "0", "2", "5", ".", "m", "d">>, <<"/", "j", "o", "u", "r", "n", "a", "l", "/", "a", ".", "m", "d">>, <<"/", "n", "/", "a", ".", "m", "d">> >>

\* What the database holds: nothing, or a note at each of the paths, the
\* last of them with a wikilink to a journal that has no note of its own.
JournalGraphs(g) ==
    {g,
     AfterRequests(g,
        [i \in DOMAIN JournalPaths |->
            [action |-> "update_note",
             params |-> [path |-> JournalPaths[i], title |-> "T1", content |-> "c1",
                         wikilinks |->
                            IF i < Len(JournalPaths) THEN << >>
                            ELSE << [target_path |-> <<"/", "j", "o", "u", "r", "n", "a", "l", "/", "2", "0", "2", "5", "-", "0", "1", "-", "0", "2", ".", "m", "d">>,
                                     line_number |-> 1] >>,
                         mentions |-> << >>, hashtags |-> << >>]]])}

\* The server starts over the database.
InitJournals ==
    /\ connection = FALSE
    /\ graph \in JournalGraphs(EmptyGraph)
    /\ pc = "main"
    /\ request = NoRequest
    /\ response = NoResponse
    /\ progress = NoLocals
    /\ before = EmptyGraph
    /\ line = "none"
    /\ sent = 0
    /\ issued = FALSE
    /\ HAS_MGCLIENT \in BOOLEAN

\* call_tool is entered with the name find_journals_by_date.
CallFindJournals ==
    /\ pc = "serving"
    /\ request' \in JournalCalls
    /\ pc' = "call_tool"
    /\ progress' = NoLocals
    /\ before' = graph
    /\ sent' = 0
    /\ issued' = FALSE
    /\ UNCHANGED <<connection, graph, response, line, HAS_MGCLIENT>>

\* call_tool, find_journals_by_date: arguments["start_date"] raises KeyError,
\* which the except clause of call_tool turns into a text; otherwise
\* find_journals_by_date_range takes start_date for an end_date that is
\* None and calls query.
FindJournalsByDate ==
    /\ pc = "call_tool"
    /\ request.name = "find_journals_by_date"
    /\ IF "start_date" \notin DOMAIN request.arguments
       THEN /\ response' = Text("Error: " \o "'start_date'")
            /\ sent' = sent + 1
            /\ pc' = "returned"
            /\ UNCHANGED progress
       ELSE LET start_date == request.arguments.start_date
                end_date == IF "end_date" \in DOMAIN request.arguments
                            THEN request.arguments.end_date
                            ELSE start_date
            IN  /\ progress' = [EnterQuery(progress) EXCEPT
                                  !.params = [start_date |-> start_date,
                                              end_date |-> end_date]]
                /\ pc' = "is_connected"
                /\ UNCHANGED <<response, sent>>
    /\ UNCHANGED <<connection, graph, request, before, line, issued, HAS_MGCLIENT>>

\* find_journals_by_date_range after query: one dict for each row.
find_journals_by_date_range(results) ==
    [i \in DOMAIN results |->
        [path |-> results[i][1], title |-> results[i][2],
         filename |-> results[i][3]]]

\* call_tool, find_journals_by_date after query: the result as JSON, or the
\* exception that left query as an error text.
FindJournalsByDateDone ==
    /\ pc = "query_done"
    /\ request.name = "find_journals_by_date"
    /\ response' = IF progress.error = NoError
                   THEN Json(find_journals_by_date_range(progress.rows))
                   ELSE Text("Error: " \o progress.error)
    /\ sent' = sent + 1
    /\ pc' = "returned"
    /\ UNCHANGED <<connection, graph, request, progress, before, line, issued,
                   HAS_MGCLIENT>>

\* The steps of the server under calls of find_journals_by_date.
NextJournals ==
    \/ Main
    \/ CallFindJournals
    \/ FindJournalsByDate
    \/ IsConnected
    \/ ServerConnect
    \/ ServerExecute
    \/ FindJournalsByDateDone
    \/ ToolReturned

SpecJournals == InitJournals /\ [][NextJournals]_vars

\* ---------------------------------------------------------------------------
\* C33
\* ---------------------------------------------------------------------------

\* find_journals_by_date has returned the result of its statement.
JournalsAnswered ==
    /\ pc = "returned"
    /\ request.name = "find_journals_by_date"
    /\ "start_date" \in DOMAIN request.arguments
    /\ progress.error = NoError

\* The notes of g with a filename that are journals or dated: the path
\* contains "/journal/" or the filename starts with "20".
JournalOrDated(g) ==
    {n \in BagToSet(g.notes) :
        /\ "filename" \in DOMAIN n
        /\ Contains(n.path, <<"/", "j", "o", "u", "r", "n", "a", "l", "/">>) \/ StartsWith(n.filename, <<"2", "0">>)}

\* C33: find_journals_by_date_range(start, end) returns, with no cap on the
\* number of results, exactly the notes whose path contains "/journal/" or
\* whose filename starts with "20" and whose filename f satisfies
\* start <= f <= end + "z" in plain string order; with end omitted it behaves
\* as end = start, so that start = end = "2025-01" returns every such note
\* whose filename begins with "2025-01" followed by '-', ' ' or '.', and none
\* from another month.
C33_JournalsInRange ==
    JournalsAnswered =>
        LET start == request.arguments.start_date
            end == IF "end_date" \in DOMAIN request.arguments
                   THEN request.arguments.end_date ELSE start
            result == response.json
            wanted == {n \in JournalOrDated(graph) :
                          /\ StrLE(start, n.filename)
                          /\ StrLE(n.filename, end \o <<"z">>)}
        IN  /\ {result[i] : i \in DOMAIN result}
                  = {[path |-> n.path, title |-> n.title, filename |-> n.filename] :
                        n \in wanted}
            /\ Len(result) = Cardinality(wanted)
            /\ start = <<"2", "0", "2", "5", "-", "0", "1">> /\ end = start =>
                  \A n \in JournalOrDated(graph) :
                     /\ (\E c \in {"-", " ", "."} :
                            StartsWith(n.filename, <<"2", "0", "2", "5", "-", "0", "1">> \o << c >>))
                          => \E i \in DOMAIN result : result[i].path = n.path
                     /\ ~StartsWith(n.filename, <<"2", "0", "2", "5", "-", "0", "1">>)
                          => \A i \in DOMAIN result : result[i].path # n.path

\* find_journals_by_date("2025-01"), without end_date, has returned the four
\* notes of January 2025, and not the note 2025-01z.md, the note of February
\* or the journal without a note of its own.
C33_Witness ==
    /\ JournalsAnswered
    /\ request.arguments = [start_date |-> <<"2", "0", "2", "5", "-", "0", "1">>]
    /\ {response.json[i].path : i \in DOMAIN response.json}
          = {<<"/", "j", "o", "u", "r", "n", "a", "l", "/", "2", "0", "2", "5", "-", "0", "1", "-", "1", "5", ".", "m", "d">>, <<"/", "n", "/", "2", "0", "2", "5", "-", "0", "1", "-", "1", "5", ".", "m", "d">>, <<"/", "n", "/", "2", "0", "2", "5", "-", "0", "1", " ", "x", ".", "m", "d">>,
             <<"/", "j", "o", "u", "r", "n", "a", "l", "/", "2", "0", "2", "5", "-", "0", "1", ".", "m", "d">>}
    /\ Len(response.json) = 4
    /\ NotesAt(graph, <<"/", "j", "o", "u", "r", "n", "a", "l", "/", "2", "0", "2", "5", "-", "0", "1", "-", "0", "2", ".", "m", "d">>) # {}


-----------------------------------------------------------------------------
(* C34 *)

\* The graph after the graph g is cleared and update_note is applied, in
\* full, to each entry of notes in order.
RECURSIVE ClearThenUpdateEach(_, _, _)
ClearThenUpdateEach(g, notes, now) ==
    IF notes = << >>
    THEN ClearGraph(g)
    ELSE Synced(ClearThenUpdateEach(g, SubSeq(notes, 1, Len(notes) - 1), now),
                notes[Len(notes)], now)

\* A reindex has answered and every entry of its list was indexed.
ReindexedAll ==
    /\ Succeeded("reindex")
    /\ response.data.errors = << >>
    /\ response.data.indexed = Len(request.params.notes)

\* C34: reindex(notes) leaves the graph in the state, last_modified aside,
\* that clearing the graph and applying update_note to each entry of the list
\* in order leaves, for every list, also one that names a path twice.
C34_ReindexIsClearThenUpdates ==
    ReindexedAll =>
        WithoutLastModified(graph)
            = WithoutLastModified(
                  ClearThenUpdateEach(graph, request.params.notes, "t1"))

\* A reindex of two entries for the same path, the first with a wikilink,
\* the second without one, has indexed both.
C34_Witness ==
    /\ ReindexedAll
    /\ Len(request.params.notes) = 2
    /\ request.params.notes[1].path = request.params.notes[2].path
    /\ Len(request.params.notes[1].wikilinks) = 1
    /\ request.params.notes[1].wikilinks[1].target_path = PBob
    /\ request.params.notes[2].wikilinks = << >>
    /\ graph.links_to # EmptyBag


-----------------------------------------------------------------------------
(* C35 *)

\* Every relationship of the bag b starts at a node of the set S of keys and
\* ends at a node of the set D of keys.
Joins(b, S, D) == \A e \in BagToSet(b) : e.src \in S /\ e.dst \in D

\* The keys of the nodes of each label.
NotePaths(g) == {n.path : n \in BagToSet(g.notes)}
PersonNames(g) == {p.name : p \in BagToSet(g.persons)}
TagNamesOf(g) == {t.name : t \in BagToSet(g.tags)}

\* C35: in every state update_note, delete_note and reindex reach, whether
\* they succeed or fail, every relationship joins two nodes that exist, of
\* the labels of its type (LINKS_TO Note to Note, MENTIONS Note to Person,
\* HAS_TAG Note to Tag, HAS_NOTE Person to Note), and no two relationships
\* share type, source, target and line_number.
C35_EdgesWellFormed ==
    /\ Joins(graph.links_to, NotePaths(graph), NotePaths(graph))
    /\ Joins(graph.mentions, NotePaths(graph), PersonNames(graph))
    /\ Joins(graph.has_tag, NotePaths(graph), TagNamesOf(graph))
    /\ Joins(graph.has_note, PersonNames(graph), NotePaths(graph))
    /\ NoCopies(graph.links_to)
    /\ NoCopies(graph.mentions)
    /\ NoCopies(graph.has_tag)
    /\ NoCopies(graph.has_note)

\* A note whose two wikilinks to one target stand on lines 1 and 2 has two
\* LINKS_TO relationships to it.
C35_Witness ==
    /\ Succeeded("update_note")
    /\ request.params.path = PA
    /\ request.params.wikilinks
         = << [target_path |-> PBob, line_number |-> 1],
              [target_path |-> PBob, line_number |-> 2] >>
    /\ OutgoingOf(graph.links_to, PA)
         = SetToBag({[src |-> PA, dst |-> PBob, line_number |-> 1],
                     [src |-> PA, dst |-> PBob, line_number |-> 2]})

\* A note whose hashtag stands twice on line 1 has one HAS_TAG relationship.
C35_RepeatedWitness ==
    /\ Succeeded("update_note")
    /\ request.params.hashtags
         = << [name |-> TagX, line_number |-> 1],
              [name |-> TagX, line_number |-> 1] >>
    /\ BagCardinality(graph.has_tag) = 1

\* A delete_note of a note that was linked to, mentioned a person and was a
\* person's note has answered.
C35_DeleteWitness ==
    /\ Handled("delete_note")
    /\ request.params.path = PBob
    /\ To(before.links_to, PBob) # {}
    /\ To(before.has_note, PBob) # {}
    /\ NotesAt(graph, PBob) = {}


-----------------------------------------------------------------------------
(* C36: two writers on one graph *)

\* An update_note that sends the statements of _update_note_internal only.
UpdateNoteWithoutDelete(note) ==
    UpdateNoteInternalStatements(note, "t1")

\* The statements one update_note call of a bridge sends, in order.
UpdateNoteOf(note) == UpdateNoteStatements(note, "t1")

\* The statements of the tool server's reindex_all_notes for the notes
\* extracted from the files found, in order: the clear, then those of
\* _index_note per file (the index statements change no node or edge).
RECURSIVE ReindexAllNotesStatements(_)
ReindexAllNotesStatements(files) ==
    IF files = << >>
    THEN << [stmt |-> "clear"] >>
    ELSE ReindexAllNotesStatements(SubSeq(files, 1, Len(files) - 1))
         \o UpdateNoteInternalStatements(files[Len(files)], "t1")

\* The statements of an operation of a writer.
WriterStatements(op) ==
    IF op.action = "update_note"
    THEN UpdateNoteOf(op.params)
    ELSE ReindexAllNotesStatements(op.files)

\* The notes the writers send.
LinkingA ==
    [path |-> PA, title |-> "T1", content |-> "c1",
     wikilinks |-> << [target_path |-> PBob, line_number |-> 1] >>,
     mentions |-> << >>, hashtags |-> << >>]
TaggingA ==
    [path |-> PA, title |-> "T2", content |-> "c2",
     wikilinks |-> << >>,
     mentions |-> << [name |-> Bob, line_number |-> 1] >>,
     hashtags |-> << [name |-> TagX, line_number |-> 2] >>]
MentioningBob ==
    [path |-> PBob, title |-> "T1", content |-> "c1",
     wikilinks |-> << >>,
     mentions |-> << [name |-> Bob, line_number |-> 1] >>,
     hashtags |-> << >>]
TaggingBob ==
    [path |-> PBob, title |-> "T2", content |-> "c2",
     wikilinks |-> << [target_path |-> PA, line_number |-> 2] >>,
     mentions |-> << >>,
     hashtags |-> << [name |-> TagX, line_number |-> 1] >>]

\* What glob and extract_from_file give reindex_all_notes: no path twice.
FileLists ==
    {<< >>, <<TaggingA>>, <<TaggingBob>>, <<TaggingA, TaggingBob>>,
     <<TaggingBob, TaggingA>>}

\* The first writer is a bridge in update_note; the second is another
\* bridge in update_note of the same path, or the tool server in
\* reindex_all_notes.
WriterPairs ==
    {<<[action |-> "update_note", params |-> n],
       [action |-> "update_note", params |-> m]>> :
        n \in {LinkingA}, m \in {LinkingA, TaggingA}}
    \cup {<<[action |-> "update_note", params |-> n],
            [action |-> "update_note", params |-> m]>> :
             n \in {MentioningBob}, m \in {MentioningBob, TaggingBob}}
    \cup {<<[action |-> "update_note", params |-> n],
            [action |-> "reindex_notes", files |-> f]>> :
             n \in {LinkingA, MentioningBob}, f \in FileLists}

\* The graph the two operations start from.
StartGraphs ==
    {EmptyGraph,
     Synced(EmptyGraph, TaggingA, "t1"),
     Synced(Synced(EmptyGraph, TaggingBob, "t1"), LinkingA, "t1")}

\* Both processes hold a connection and are inside their operation.
\* request[w] is the operation of writer w, progress[w] the number of its
\* statements the database has executed, line the writers in the order in
\* which they took turns (up to three turns).
InitWriters ==
    /\ connection = TRUE
    /\ graph \in StartGraphs
    /\ before = graph
    /\ request \in WriterPairs
    /\ progress = <<0, 0>>
    /\ line = << >>
    /\ pc = "writing"
    /\ response = NoResponse
    /\ sent = 0
    /\ issued = FALSE
    /\ HAS_MGCLIENT = TRUE

\* The turns after writer w has had a statement executed.
Turns(turns, w) ==
    IF turns # << >> /\ turns[Len(turns)] = w THEN turns
    ELSE IF Len(turns) = 3 THEN turns
    ELSE Append(turns, w)

\* The database executes the next statement of writer w.
WriterExecute(w) ==
    /\ pc = "writing"
    /\ progress[w] < Len(WriterStatements(request[w]))
    /\ graph' = Execute(graph, WriterStatements(request[w])[progress[w] + 1])
    /\ progress' = [progress EXCEPT ![w] = @ + 1]
    /\ line' = Turns(line, w)
    /\ UNCHANGED <<connection, pc, request, response, before, sent, issued,
                   HAS_MGCLIENT>>

\* cursor.execute in update_note of the bridge w.
UpdateNoteExecute(w) ==
    /\ request[w].action = "update_note"
    /\ WriterExecute(w)

\* self.query in reindex_all_notes and _index_note of the tool server.
ReindexAllNotesExecute ==
    /\ request[2].action = "reindex_notes"
    /\ WriterExecute(2)

NextWriters ==
    \/ UpdateNoteExecute(1)
    \/ UpdateNoteExecute(2)
    \/ ReindexAllNotesExecute

SpecWriters == InitWriters /\ [][NextWriters]_vars

\* Both operations have had all their statements executed.
BothDone ==
    \A w \in {1, 2} : progress[w] = Len(WriterStatements(request[w]))

\* One operation had all its statements executed before the other's first.
Serial == Len(line) <= 2

\* The graph after all statements of qs.
RunAll(g, qs) == Run(g, qs, Len(qs))

\* The graphs the two operations leave when one runs after the other.
SerialResults ==
    LET s1 == WriterStatements(request[1])
        s2 == WriterStatements(request[2])
    IN  {RunAll(RunAll(before, s1), s2), RunAll(RunAll(before, s2), s1)}

\* Note(note.path) has the attributes of note and its outgoing relationships
\* are those of the records of note.
MatchesUpdate(g, note) ==
    /\ \E n \in NotesAt(g, note.path) :
         /\ n.title = note.title
         /\ n.content_hash = ComputeContentHash(note.content)
    /\ OutgoingOf(g.links_to, note.path)
         = SetToBag(Wanted(note.path, note.wikilinks, "target_path"))
    /\ OutgoingOf(g.mentions, note.path)
         = SetToBag(Wanted(note.path, note.mentions, "name"))
    /\ OutgoingOf(g.has_tag, note.path)
         = SetToBag(Wanted(note.path, note.hashtags, "name"))

\* The result of the later of two operations run one after the other.
MatchesLater(g, op) ==
    IF op.action = "update_note"
    THEN MatchesUpdate(g, op.params)
    ELSE WithoutLastModified(g)
           = WithoutLastModified(
                 RunAll(EmptyGraph, ReindexAllNotesStatements(op.files)))

\* C36: when the two operations run one after the other the result matches
\* the later one: after update_note the note has the attributes and the
\* outgoing edges of that call alone, after reindex_all_notes the graph is
\* what the files give; when their statements interleave, states are
\* reached that neither serial order gives (C36_Witness,
\* C36_PartlyErasedWitness).
C36_SerialMatchesLater ==
    (BothDone /\ Serial) =>
        /\ graph \in SerialResults
        /\ MatchesLater(graph, request[line[Len(line)]])

\* Two update_note calls for PA interleave: the note ends with the
\* wikilink of one call and the mention and hashtag of the other, which
\* neither serial order leaves.
C36_Witness ==
    /\ BothDone
    /\ ~Serial
    /\ request[1].params = LinkingA
    /\ request[2].action = "update_note"
    /\ request[2].params = TaggingA
    /\ graph \notin SerialResults
    /\ From(graph.links_to, PA) # {}
    /\ From(graph.mentions, PA) # {}
    /\ From(graph.has_tag, PA) # {}

\* The clear of reindex_all_notes falls inside update_note of the person
\* note: the Note and its mention are gone, the Person of its HAS_NOTE
\* statement is there without a note, which neither serial order leaves.
C36_PartlyErasedWitness ==
    /\ BothDone
    /\ ~Serial
    /\ request[1].params = MentioningBob
    /\ request[2].action = "reindex_notes"
    /\ request[2].files = << >>
    /\ graph \notin SerialResults
    /\ NotesAt(graph, PBob) = {}
    /\ PersonsNamed(graph, Bob) # {}
    /\ graph.has_note = EmptyBag


-----------------------------------------------------------------------------
(* C37 *)

\* The relationships of the bag b that start at another node than p.
NotFrom(b, p) == [e \in {x \in BagToSet(b) : x.src # p} |-> b[e]]

\* The Note nodes of g at other paths than p.
NotesNotAt(g, p) ==
    [n \in {x \in BagToSet(g.notes) : x.path # p} |-> g.notes[n]]

\* Every node of g is a node of h: no path or name is lost.
KeepsNodes(g, h) ==
    /\ NotePaths(g) \subseteq NotePaths(h)
    /\ PersonNames(g) \subseteq PersonNames(h)
    /\ TagNamesOf(g) \subseteq TagNamesOf(h)

\* C37: update_note(p), whatever its outcome, leaves every relationship that
\* starts at a Note other than p as it was (the LINKS_TO relationships that
\* arrive at p among them), keeps every HAS_NOTE relationship, leaves the
\* attributes of every Note other than p as they were, and removes no node.
C37_UpdateFrame ==
    Handled("update_note") =>
        LET p == request.params.path
        IN  /\ NotFrom(graph.links_to, p) = NotFrom(before.links_to, p)
            /\ NotFrom(graph.mentions, p) = NotFrom(before.mentions, p)
            /\ NotFrom(graph.has_tag, p) = NotFrom(before.has_tag, p)
            /\ before.has_note \sqsubseteq graph.has_note
            /\ \A n \in BagToSet(NotesNotAt(before, p)) :
                   BagIn(n, graph.notes)
                   /\ graph.notes[n] = before.notes[n]
            /\ KeepsNodes(before, graph)

\* The person note PBob, linked to from PA, is synced again with other
\* entities: its outgoing relationships change, the link from PA and the
\* HAS_NOTE relationship are still there.
C37_Witness ==
    /\ Succeeded("update_note")
    /\ request.params.path = PBob
    /\ \E e \in BagToSet(before.links_to) : e.src = PA /\ e.dst = PBob
    /\ \E e \in BagToSet(graph.links_to) : e.src = PA /\ e.dst = PBob
    /\ before.has_note # EmptyBag
    /\ From(before.mentions, PBob) # {}
    /\ From(graph.mentions, PBob) = {}
    /\ From(graph.has_tag, PBob) # {}


-----------------------------------------------------------------------------
(* C38 *)

\* The actions whose handlers begin with the check of the handle.
HandleActions ==
    {"health_check", "update_note", "delete_note", "query", "reindex",
     "stats"}

\* This step is the answer of the handler of action.
Answers(action) == Dispatched(action) /\ pc' = "responded"

\* C38: the handle changes only when connect answers (set by a success,
\* cleared by a failure, a live handle included) and when a health_check
\* fails (cleared); no other step changes it, so a failed update_note,
\* delete_note, query, reindex or stats keeps it and nothing reconnects; and
\* without a handle every graph action answers "Not connected".
C38_HandleChanges ==
    [][/\ connection' # connection =>
            \/ Answers("connect")
            \/ Answers("health_check") /\ ~response'.success /\ ~connection'
       /\ Answers("connect") => connection' = response'.success
       /\ Answers("health_check") /\ ~response'.success => ~connection'
       /\ \A a \in HandleActions :
            Answers(a) /\ ~connection =>
                response' = NotConnected /\ ~connection' /\ graph' = graph
      ]_vars

\* An update_note is answered "Not connected" by a bridge that had a handle:
\* the graph holds what was written through it.
C38_Witness ==
    /\ Handled("update_note")
    /\ response = NotConnected
    /\ ~connection
    /\ graph # EmptyGraph

\* A query that failed on a live handle has left the handle in place.
C38_FailedQueryWitness ==
    /\ Handled("query")
    /\ ~response.success
    /\ response # NotConnected
    /\ connection

\* A connect that failed has left no handle, in a session that had one.
C38_FailedConnectWitness ==
    /\ Handled("connect")
    /\ ~response.success
    /\ HAS_MGCLIENT
    /\ ~connection
    /\ graph # EmptyGraph


-----------------------------------------------------------------------------
(* C39 *)

\* The paths of the entries and of their wikilinks.
PathsOfAll(notes) ==
    {notes[i].path : i \in DOMAIN notes}
    \cup UNION {{r.target_path : r \in Range(notes[i].wikilinks)} :
                   i \in DOMAIN notes}

\* C39: reindex changes the graph only once its clear has succeeded and
\* never brings the earlier content back: without a handle, or when the
\* clear raises, the graph is as it was and the answer is a failure; after
\* the clear the graph is empty, then holds Notes of the entries only, and
\* when statements raise after the clear the answer is still a success with
\* the failed paths in errors, indexed below total, and the graph left as
\* the loop left it.
C39_ReindexAfterClear ==
    [][/\ Dispatched("reindex") =>
            \/ /\ pc' = "responded"
               /\ ~response'.success
               /\ graph' = graph
            \/ /\ pc' = "cleared"
               /\ connection
               /\ graph' = EmptyGraph
       /\ (pc \in {"cleared", "reindexing"} /\ pc' = "reindexing") =>
            /\ NotePaths(graph') \subseteq PathsOfAll(request'.params.notes)
            /\ NotePaths(graph) \subseteq NotePaths(graph')
       /\ (pc = "reindexing" /\ pc' = "responded") =>
            /\ graph' = graph
            /\ response'.success
            /\ response'.data.indexed + Len(response'.data.errors)
                 = response'.data.total
            /\ response'.data.errors = progress.errors
            /\ progress.errors # << >> =>
                 response'.data.indexed < response'.data.total
      ]_vars

\* The database went away after the clear: the reindex of two entries
\* answers success with both paths in errors and the graph is empty.
C39_Witness ==
    /\ Succeeded("reindex")
    /\ response.data.total = 2
    /\ response.data.indexed = 0
    /\ Len(response.data.errors) = 2
    /\ graph = EmptyGraph

\* The second entry failed after its first statement: success, one error,
\* and the graph holds the first entry and part of the second.
C39_PartialWitness ==
    /\ Succeeded("reindex")
    /\ response.data.total = 2
    /\ response.data.indexed = 1
    /\ response.data.errors = << PBob >>
    /\ NotesAt(graph, PA) # {}
    /\ NotesAt(graph, PBob) # {}
    /\ graph.has_note = EmptyBag

\* The clear raised: the reindex answers failure and the notes are there.
C39_ClearFailedWitness ==
    /\ Handled("reindex")
    /\ response = Failure("Reindex failed")
    /\ connection
    /\ graph # EmptyGraph
    /\ graph = before


-----------------------------------------------------------------------------
(* C40 *)

\* The Note nodes that only a wikilink made: a path and nothing else.
Stubs(g) == {n \in BagToSet(g.notes) : DOMAIN n = {"path"}}

\* C40: a step removes the Note at a path only if it is delete_note of that
\* path or the clear of reindex; update_note and the orphan sweeps of
\* delete_note of another path remove no Note, so the Note a wikilink made
\* for its target outlives the note that linked to it.
C40_NotesRemovedByDeleteOrClear ==
    [][\A q \in NotePaths(graph) \ NotePaths(graph') :
          \/ Dispatched("delete_note") /\ request.params.path = q
          \/ Dispatched("reindex") /\ pc' = "cleared"
      ]_vars

\* The note PA that linked to PBob is deleted: the Note made for PBob is
\* the one Note left, and counts as one.
C40_Witness ==
    /\ Succeeded("delete_note")
    /\ request.params.path = PA
    /\ \E e \in BagToSet(before.links_to) : e.src = PA /\ e.dst = PBob
    /\ Stubs(before) = {[path |-> PBob]}
    /\ Stubs(graph) = {[path |-> PBob]}
    /\ graph.links_to = EmptyBag
    /\ CountOf(graph, "notes") = 1

\* The note PA that linked to PBob is synced again without the link: the
\* Note made for PBob is still there, with no relationship.
C40_ResyncWitness ==
    /\ Succeeded("update_note")
    /\ request.params.path = PA
    /\ \E e \in BagToSet(before.links_to) : e.src = PA /\ e.dst = PBob
    /\ Stubs(graph) = {[path |-> PBob]}
    /\ graph.links_to = EmptyBag
    /\ CountOf(graph, "notes") = 2

====
